---- MODULE Spec2Model ----
(***************************************************************************)
(* Semantic road-network pipeline of autoskola.io:                         *)
(*   OverpassClient -> LaneBuilder -> IntersectionBuilder -> NetworkBuilder *)
(*   -> RoadNetworkManager (queries, toJSON / fromJSON).                    *)
(*                                                                         *)
(* Number model.  JavaScript numbers are fixed-point integers:             *)
(*   - coordinates (lon, lat, polyline points), widths and offsets in      *)
(*     units of 1/Unit (the code adds metres to degrees, so they share one *)
(*     unit here as well);                                                 *)
(*   - unit normals in units of 1/Unit;                                    *)
(*   - speeds in units of 1/100000 m/s;                                    *)
(*   - angles in whole degrees: Math.atan2 is rounded to the nearest       *)
(*     degree, so Math.PI is 180, PI/12 is 15, PI/6 is 30, 0.75*PI is 135. *)
(* The non-finite numbers Infinity, -Infinity and NaN are three integers   *)
(* outside the finite range, and arithmetic that can meet them goes        *)
(* through the Js* operators, which follow IEEE-754.                       *)
(* Strings that the code parses (lanes, width, maxspeed, turn:lanes ...)   *)
(* are sequences of one-character strings; strings the code only compares  *)
(* (highway, oneway, junction ...) are atoms.                              *)
(***************************************************************************)
EXTENDS Integers, Sequences, FiniteSets, TLC

VARIABLES
    elements,   \* the raw element set the Overpass service answers with
    clock,      \* wall clock read by new Date()
    randomSource, \* the values Math.random() returns next, repeated cyclically
    network,    \* the snapshot returned by the last build, or NoNetwork
    manager,    \* the snapshot a RoadNetworkManager wraps, or NoNetwork
    json,       \* the text the manager's last toJSON returned, or NoJSON
    loaded,     \* the snapshot of the manager fromJSON(json) returned, or NoNetwork
    networkRef, \* the identity of the object network is, NoRef before a build
    managerRef, \* the identity of the object the manager's this.network refers to
    response,   \* what the fetch of the current build attempt has come to
    requests,   \* the number of fetches issued so far
    elapsed,    \* seconds since the fetch awaited was issued
    error,      \* the error the last build attempt or load threw, or NoError
    answer,     \* the call last made on the manager and what it returned
    loading,    \* ClientRoadNetwork.loading
    loadError   \* ClientRoadNetwork.loadError: the message recorded, or Null

vars == <<elements, clock, randomSource, network, manager, json, loaded,
          networkRef, managerRef, response, requests, elapsed, error, answer,
          loading, loadError>>

\* what the source fetch and the queries of the manager keep
fetchVars == <<response, requests, elapsed, error>>

\* the fields of a ClientRoadNetwork besides its manager
clientVars == <<loading, loadError>>

----------------------------------------------------------------------------
(* Numbers *)

Unit == 1000

Infinity == 2000000000
NegInfinity == -Infinity
NaN == 2000000001
JsNull == 2000000002
Undefined == "undefined"

IsNaN(a) == a = NaN
IsInf(a) == a = Infinity \/ a = NegInfinity
IsFinite(a) == ~IsNaN(a) /\ ~IsInf(a) /\ a # JsNull

Abs(a) == IF a < 0 THEN -a ELSE a
Sign(a) == IF a < 0 THEN -1 ELSE IF a > 0 THEN 1 ELSE 0

\* a / b rounded to the nearest integer, b # 0, both finite
RDiv(a, b) ==
    LET n == IF b < 0 THEN -a ELSE a
        d == Abs(b)
    IN  (2 * n + d) \div (2 * d)

JsNeg(a) == IF IsNaN(a) THEN NaN ELSE -a

JsAdd(a, b) ==
    IF IsNaN(a) \/ IsNaN(b) THEN NaN
    ELSE IF IsInf(a) /\ IsInf(b) THEN (IF a = b THEN a ELSE NaN)
    ELSE IF IsInf(a) THEN a
    ELSE IF IsInf(b) THEN b
    ELSE a + b

JsSub(a, b) == JsAdd(a, JsNeg(b))

\* a * b / scale: a product of two fixed-point numbers (scale 1 for a plain factor)
JsMul(a, b, scale) ==
    IF IsNaN(a) \/ IsNaN(b) THEN NaN
    ELSE IF IsInf(a) \/ IsInf(b)
         THEN (IF a = 0 \/ b = 0 THEN NaN
               ELSE IF Sign(a) * Sign(b) > 0 THEN Infinity ELSE NegInfinity)
    ELSE RDiv(a * b, scale)

\* a / b where b is a plain (unscaled) number
JsDiv(a, b) ==
    IF IsNaN(a) \/ IsNaN(b) THEN NaN
    ELSE IF IsInf(a) /\ IsInf(b) THEN NaN
    ELSE IF IsInf(a) THEN (IF Sign(a) * (IF b < 0 THEN -1 ELSE 1) > 0 THEN Infinity ELSE NegInfinity)
    ELSE IF IsInf(b) THEN 0
    ELSE IF b = 0 THEN (IF a = 0 THEN NaN ELSE IF a > 0 THEN Infinity ELSE NegInfinity)
    ELSE RDiv(a, b)

\* a < b, a <= b, a > b of JavaScript: false as soon as one side is NaN
JsLt(a, b) == ~IsNaN(a) /\ ~IsNaN(b) /\ a < b
JsLe(a, b) == ~IsNaN(a) /\ ~IsNaN(b) /\ a <= b
JsGt(a, b) == JsLt(b, a)
JsGe(a, b) == JsLe(b, a)

\* truthiness of a number: 0 and NaN are falsy
Truthy(a) == a # 0 /\ ~IsNaN(a)

JsMin(a, b) == IF IsNaN(a) \/ IsNaN(b) THEN NaN ELSE IF a < b THEN a ELSE b
JsMax(a, b) == IF IsNaN(a) \/ IsNaN(b) THEN NaN ELSE IF a > b THEN a ELSE b

\* the largest r of lo..hi with (r - 1/2)^2 < n, lo when there is none
RECURSIVE SqrtSearch(_, _, _)
SqrtSearch(n, lo, hi) ==
    IF lo >= hi THEN lo
    ELSE LET mid == (lo + hi + 1) \div 2
         IN  IF mid * mid - mid < n THEN SqrtSearch(n, mid, hi) ELSE SqrtSearch(n, lo, mid - 1)

\* Math.sqrt of a plain integer, rounded to the nearest integer
Sqrt(n) == SqrtSearch(n, 0, 40000)

\* 1000 * sin(a) for a = 0..90 degrees (index a + 1)
SinTable == <<
    0, 17, 35, 52, 70, 87, 105, 122, 139, 156, 174, 191, 208, 225, 242, 259,
    276, 292, 309, 326, 342, 358, 375, 391, 407, 423, 438, 454, 469, 485, 500,
    515, 530, 545, 559, 574, 588, 602, 616, 629, 643, 656, 669, 682, 695, 707,
    719, 731, 743, 755, 766, 777, 788, 799, 809, 819, 829, 839, 848, 857, 866,
    875, 883, 891, 899, 906, 914, 921, 927, 934, 940, 946, 951, 956, 961, 966,
    970, 974, 978, 982, 985, 988, 990, 993, 995, 996, 998, 999, 999, 1000, 1000 >>

Sin90(a) == SinTable[a + 1]
Cos90(a) == SinTable[91 - a]

\* cross product of (ax, ay) with the direction of q degrees: >= 0 once q has
\* passed the direction of (ax, ay); monotone in q on 0..90
CrossAt(ax, ay, q) == ax * Sin90(q) - ay * Cos90(q)

RECURSIVE AtanSearch(_, _, _, _)
AtanSearch(ax, ay, lo, hi) ==
    IF lo >= hi THEN lo
    ELSE LET mid == (lo + hi) \div 2
         IN  IF CrossAt(ax, ay, mid) >= 0 THEN AtanSearch(ax, ay, lo, mid)
             ELSE AtanSearch(ax, ay, mid + 1, hi)

\* atan2 of a vector of the first quadrant, in whole degrees 0..90
AtanQuadrant(ax, ay) ==
    LET Nearest(q) ==
            IF q > 0 /\ Abs(CrossAt(ax, ay, q - 1)) <= Abs(CrossAt(ax, ay, q)) THEN q - 1 ELSE q
    IN  Nearest(AtanSearch(ax, ay, 0, 90))

\* Math.atan2(dy, dx) in whole degrees, -180..180; NaN when an argument is
\* NaN; an infinite argument dominates a finite one
Atan2(dy, dx) ==
    IF IsNaN(dy) \/ IsNaN(dx) THEN NaN
    ELSE LET y == IF IsInf(dy) THEN Sign(dy) ELSE IF IsInf(dx) THEN 0 ELSE dy
             x == IF IsInf(dx) THEN Sign(dx) ELSE IF IsInf(dy) THEN 0 ELSE dx
             Quadrant(q) ==
                 IF x = 0 /\ y = 0 THEN 0
                 ELSE IF x >= 0 /\ y >= 0 THEN q
                 ELSE IF x < 0 /\ y >= 0 THEN 180 - q
                 ELSE IF x < 0 THEN q - 180
                 ELSE -q
         IN  Quadrant(AtanQuadrant(Abs(x), Abs(y)))

----------------------------------------------------------------------------
(* Strings the code parses: sequences of one-character strings *)

Digits == {"0", "1", "2", "3", "4", "5", "6", "7", "8", "9"}

DigitVal(c) ==
    CASE c = "0" -> 0 [] c = "1" -> 1 [] c = "2" -> 2 [] c = "3" -> 3 [] c = "4" -> 4
      [] c = "5" -> 5 [] c = "6" -> 6 [] c = "7" -> 7 [] c = "8" -> 8 [] c = "9" -> 9

\* the part of s from position i on
From(s, i) == SubSeq(s, i, Len(s))

\* number of leading characters of s that belong to set
RECURSIVE RunLen(_, _)
RunLen(s, set) ==
    IF s = <<>> \/ Head(s) \notin set THEN 0 ELSE 1 + RunLen(Tail(s), set)

\* value of a sequence of digits
RECURSIVE DigitsVal(_)
DigitsVal(s) ==
    IF s = <<>> THEN 0 ELSE 10 * DigitsVal(SubSeq(s, 1, Len(s) - 1)) + DigitVal(s[Len(s)])

\* s starts with p
StartsWith(s, p) == Len(s) >= Len(p) /\ SubSeq(s, 1, Len(p)) = p

\* String.prototype.toLowerCase on the letters the unit names use
LowerChar(c) ==
    CASE c = "K" -> "k" [] c = "M" -> "m" [] c = "H" -> "h" [] c = "P" -> "p" [] OTHER -> c

ToLower(s) == [i \in 1..Len(s) |-> LowerChar(s[i])]

\* String.prototype.split on a one-character separator
RECURSIVE Split(_, _)
Split(s, sep) ==
    LET n == RunLen(s, {c \in {s[i] : i \in 1..Len(s)} : c # sep})
    IN  IF n = Len(s) THEN <<s>>
        ELSE <<SubSeq(s, 1, n)>> \o Split(From(s, n + 2), sep)

\* parseInt(s): leading blanks, an optional sign, then decimal digits; NaN
\* when no digit follows
\* an optional sign at the head of t
Negative(t) == t # <<>> /\ Head(t) = "-"
Unsigned(t) == IF t # <<>> /\ Head(t) \in {"-", "+"} THEN Tail(t) ELSE t

\* the integer a run of digits at the head of u spells, NaN when it is empty
LeadingInt(u) == IF RunLen(u, Digits) = 0 THEN NaN ELSE DigitsVal(SubSeq(u, 1, RunLen(u, Digits)))

ParseInt(s) ==
    LET Signed(t) == IF Negative(t) THEN JsNeg(LeadingInt(Unsigned(t))) ELSE LeadingInt(Unsigned(t))
    IN  Signed(From(s, RunLen(s, {" "}) + 1))

\* 10^k for k = 0..3
Pow10(k) == CASE k = 0 -> 1 [] k = 1 -> 10 [] k = 2 -> 100 [] OTHER -> 1000

\* parseFloat(s) in units of 1/Unit: leading blanks, an optional sign, digits,
\* an optional fraction (three decimals are kept); NaN when no digit is found
\* the digits after a decimal point at the head of rest, <<>> without one
FractionDigits(rest) ==
    IF rest # <<>> /\ Head(rest) = "." THEN SubSeq(Tail(rest), 1, RunLen(Tail(rest), Digits))
    ELSE <<>>

\* the first three decimals frac spells, in units of 1/Unit
Thousandths(frac) ==
    IF Len(frac) >= 3 THEN DigitsVal(SubSeq(frac, 1, 3)) ELSE DigitsVal(frac) * Pow10(3 - Len(frac))

\* the number whose integer digits are whole and whose decimals are frac
Magnitude(whole, frac) ==
    IF whole = <<>> /\ frac = <<>> THEN NaN ELSE DigitsVal(whole) * Unit + Thousandths(frac)

ParseFloat(s) ==
    LET Unsign(u) ==
            Magnitude(SubSeq(u, 1, RunLen(u, Digits)),
                      FractionDigits(From(u, RunLen(u, Digits) + 1)))
        Signed(t) == IF Negative(t) THEN JsNeg(Unsign(Unsigned(t))) ELSE Unsign(Unsigned(t))
    IN  Signed(From(s, RunLen(s, {" "}) + 1))

\* Number.prototype.toString of an integer or NaN, as the code uses it
RECURSIVE NatToString(_)
NatToString(n) ==
    IF n < 10 THEN <<ToString(n)>> ELSE NatToString(n \div 10) \o <<ToString(n % 10)>>

NumToString(n) ==
    IF IsNaN(n) THEN <<"N", "a", "N">>
    ELSE IF n < 0 THEN <<"-">> \o NatToString(-n)
    ELSE NatToString(n)

----------------------------------------------------------------------------
(* OSM elements.  tags is a function from tag keys to values; a key the     *)
(* element does not carry is not in its domain.                             *)

NoTags == [k \in {} |-> Undefined]
HasTag(tags, k) == k \in DOMAIN tags
\* tags[k] of a tag the code only compares: an atom, Undefined when absent
Tag(tags, k) == IF k \in DOMAIN tags THEN tags[k] ELSE Undefined
\* tags[k] of a tag the code parses: a character sequence, empty when absent
\* (the code reads these as  tags[k] || fallback  or  tags[k] ? .. : ..,
\* which treat the empty string and undefined alike)
TagText(tags, k) == IF k \in DOMAIN tags THEN tags[k] ELSE <<>>

NoNode == [type |-> "undefined"]

\* Map.prototype.set on a Map kept as a sequence of values in insertion order
MapSet(m, v) ==
    IF \E i \in 1..Len(m) : m[i].id = v.id
    THEN [i \in 1..Len(m) |-> IF m[i].id = v.id THEN v ELSE m[i]]
    ELSE Append(m, v)

\* Map.prototype.get
MapGet(m, id) ==
    IF \E i \in 1..Len(m) : m[i].id = id
    THEN m[CHOOSE i \in 1..Len(m) : m[i].id = id]
    ELSE NoNode

\* concatenation of a sequence of sequences (allLanes.push(...lanes))
RECURSIVE Flatten(_)
Flatten(ss) == IF ss = <<>> THEN <<>> ELSE Head(ss) \o Flatten(Tail(ss))

Reverse(s) == [i \in 1..Len(s) |-> s[Len(s) + 1 - i]]

----------------------------------------------------------------------------
(* OverpassClient *)

RECURSIVE extractNodesMap(_)
extractNodesMap(els) ==
    IF els = <<>> THEN <<>>
    ELSE LET rest == extractNodesMap(SubSeq(els, 1, Len(els) - 1))
             el == els[Len(els)]
         IN  IF el.type = "node" THEN MapSet(rest, el) ELSE rest

carHighways ==
    {"motorway", "trunk", "primary", "secondary", "tertiary",
     "unclassified", "residential", "service", "living_street"}

isCarWay(way) ==
    HasTag(way.tags, "highway") /\ way.tags["highway"] \in carHighways

KmhFactor == 27778
MphFactor == 44704
DefaultParsedSpeed == 1389000

\* the unit group (kmh|km\/h|mph)? of the maxspeed pattern, matched against
\* the text that follows the digits and blanks, case-insensitively
MatchUnit(rest) ==
    LET r == ToLower(rest)
    IN  IF StartsWith(r, <<"k", "m", "h">>) THEN "kmh"
        ELSE IF StartsWith(r, <<"k", "m", "/", "h">>) THEN "km/h"
        ELSE IF StartsWith(r, <<"m", "p", "h">>) THEN "mph"
        ELSE Undefined

\* position of the first digit of s, 0 when it has none
FirstDigit(s) ==
    IF \E i \in 1..Len(s) : s[i] \in Digits
    THEN CHOOSE i \in 1..Len(s) : s[i] \in Digits /\ \A j \in 1..(i - 1) : s[j] \notin Digits
    ELSE 0

\* parseMaxSpeed that takes every value for km/h
parseMaxSpeed_KmhOnly(maxspeedTag) ==
    IF FirstDigit(maxspeedTag) = 0 THEN DefaultParsedSpeed
    ELSE DigitsVal(SubSeq(From(maxspeedTag, FirstDigit(maxspeedTag)), 1,
                          RunLen(From(maxspeedTag, FirstDigit(maxspeedTag)), Digits)))
         * KmhFactor

parseMaxSpeed(maxspeedTag) ==
    LET \* t: the tag from its first digit on
        Speed(t) ==
            LET n == RunLen(t, Digits)
                afterDigits == From(t, n + 1)
                value == DigitsVal(SubSeq(t, 1, n))
                unit == MatchUnit(From(afterDigits, RunLen(afterDigits, {" "}) + 1))
            IN  IF unit = "mph" THEN value * MphFactor ELSE value * KmhFactor
    IN  IF FirstDigit(maxspeedTag) = 0 THEN DefaultParsedSpeed
        ELSE Speed(From(maxspeedTag, FirstDigit(maxspeedTag)))

\* Math.ceil(lanes / 2).toString() and Math.floor(lanes / 2).toString()
CeilHalf(n) == IF IsNaN(n) THEN NaN ELSE -((-n) \div 2)
\* FloorHalf without the division by two
FloorHalf_Whole(n) == n
FloorHalf(n) == IF IsNaN(n) THEN NaN ELSE n \div 2

\* text || fallback
OrElse(text, fallback) == IF text = <<>> THEN fallback ELSE text

NoTurnLanes == <<>>

extractLaneInfo(way) ==
    LET tags == way.tags
        isOneway == Tag(tags, "oneway") = "yes" \/ Tag(tags, "oneway") = "1"
        Info(lanes) ==
            [lanes |-> lanes,
             lanesForward |->
                IF isOneway THEN lanes
                ELSE ParseInt(OrElse(TagText(tags, "lanes:forward"), NumToString(CeilHalf(lanes)))),
             lanesBackward |->
                IF isOneway THEN 0
                ELSE ParseInt(OrElse(TagText(tags, "lanes:backward"), NumToString(FloorHalf(lanes)))),
             isOneway |-> isOneway,
             turnLanes |-> IF HasTag(tags, "turn:lanes") THEN Split(tags["turn:lanes"], "|")
                           ELSE NoTurnLanes,
             hasMaxSpeed |-> TagText(tags, "maxspeed") # <<>>,
             maxSpeed |-> IF TagText(tags, "maxspeed") # <<>> THEN parseMaxSpeed(tags["maxspeed"])
                          ELSE 0,
             hasWidth |-> TagText(tags, "width") # <<>>,
             width |-> IF TagText(tags, "width") # <<>> THEN ParseFloat(tags["width"]) ELSE 0]
    IN  Info(ParseInt(OrElse(TagText(tags, "lanes"), <<"2">>)))

----------------------------------------------------------------------------
(* LaneBuilder.  A Vec2 is a pair <<x, y>> = [lon, lat]. *)

DEFAULT_LANE_WIDTH == 3250

wayToPolyline(way, nodes) ==
    LET resolved == SelectSeq(way.nodes, LAMBDA id : MapGet(nodes, id) # NoNode)
    IN  [i \in 1..Len(resolved) |->
            <<MapGet(nodes, resolved[i]).lon, MapGet(nodes, resolved[i]).lat>>]

\* the loop  for (i = 0; i < laneCount; i++)  runs for these i; none when
\* laneCount is NaN or not positive
LoopCount(laneCount) == IF IsNaN(laneCount) \/ laneCount < 0 THEN 0 ELSE laneCount

calculateLaneOffsets(laneCount, laneWidth, direction) ==
    LET startOffset == JsDiv(JsMul(direction, laneWidth, 1), 2)
    IN  IF laneCount = 1 THEN <<startOffset>>
        ELSE [k \in 1..LoopCount(laneCount) |->
                 JsAdd(startOffset, JsMul(direction * (k - 1), laneWidth, 1))]

getSegmentNormal(start, end) ==
    LET dx == end[1] - start[1]
        dy == end[2] - start[2]
        Normal(length) ==
            IF length = 0 THEN <<0, Unit>>
            ELSE <<RDiv(dy * Unit, length), RDiv((-dx) * Unit, length)>>
    IN  Normal(Sqrt(dx * dx + dy * dy))

\* the normal offsetPolyline uses at index i (1-based) of polyline
NormalAt(polyline, i) ==
    IF i = 1 THEN getSegmentNormal(polyline[1], polyline[2])
    ELSE IF i = Len(polyline) THEN getSegmentNormal(polyline[i - 1], polyline[i])
    ELSE LET Average(normal1, normal2) ==
                 LET ax == RDiv(normal1[1] + normal2[1], 2)
                     ay == RDiv(normal1[2] + normal2[2], 2)
                     Rescaled(length) ==
                         IF length > 0 THEN <<RDiv(ax * Unit, length), RDiv(ay * Unit, length)>>
                         ELSE <<ax, ay>>
                 IN  Rescaled(Sqrt(ax * ax + ay * ay))
         IN  Average(getSegmentNormal(polyline[i - 1], polyline[i]),
                     getSegmentNormal(polyline[i], polyline[i + 1]))

\* polyline[i] + normal * offset
OffsetPoint(polyline, i, offset) ==
    LET Moved(point, normal) ==
            <<JsAdd(point[1], JsMul(normal[1], offset, Unit)),
              JsAdd(point[2], JsMul(normal[2], offset, Unit))>>
    IN  Moved(polyline[i], NormalAt(polyline, i))

\* offsetPolyline with a loop that stops one point early
offsetPolyline_StopsEarly(polyline, offset) ==
    IF Len(polyline) < 2 THEN polyline
    ELSE [i \in 1..(Len(polyline) - 1) |-> OffsetPoint(polyline, i, offset)]

offsetPolyline(polyline, offset) ==
    IF Len(polyline) < 2 THEN polyline
    ELSE [i \in 1..Len(polyline) |-> OffsetPoint(polyline, i, offset)]

extractTurnHint(turnLanes, laneIndex) ==
    IF turnLanes = NoTurnLanes \/ laneIndex >= Len(turnLanes) THEN Undefined
    ELSE LET primaryTurn == Split(turnLanes[laneIndex + 1], ";")[1]
         IN  IF primaryTurn = <<"l", "e", "f", "t">> THEN "left"
             ELSE IF primaryTurn = <<"s", "l", "i", "g", "h", "t", "_", "l", "e", "f", "t">>
                  THEN "slight_left"
             ELSE IF primaryTurn = <<"t", "h", "r", "o", "u", "g", "h">> THEN "through"
             ELSE IF primaryTurn = <<"s", "l", "i", "g", "h", "t", "_", "r", "i", "g", "h", "t">>
                  THEN "slight_right"
             ELSE IF primaryTurn = <<"r", "i", "g", "h", "t">> THEN "right"
             ELSE Undefined

\* String.prototype.includes
Includes(s, p) == \E i \in 1..(Len(s) - Len(p) + 1) : SubSeq(s, i, i + Len(p) - 1) = p

getLaneType(tags) ==
    IF HasTag(tags, "busway") \/ Includes(TagText(tags, "vehicle:lanes"), <<"b", "u", "s">>)
    THEN "bus"
    ELSE IF HasTag(tags, "cycleway") \/ Tag(tags, "highway") = "cycleway" THEN "bike"
    ELSE IF Tag(tags, "railway") = "tram" THEN "tram"
    ELSE "general"

getDefaultMaxSpeed(highway) ==
    CASE highway = "motorway" -> 3611000
      [] highway = "trunk" -> 2500000
      [] highway \in {"primary", "secondary", "tertiary", "unclassified"} -> 1389000
      [] highway = "residential" -> 833000
      [] highway = "living_street" -> 278000
      [] highway = "service" -> 556000
      [] OTHER -> 1389000

NodeRef(id) == "node_" \o ToString(id)

\* the lanes buildLanesFromWay pushes for a way whose centerline is centerline
LanesOver(centerline, way, laneInfo) ==
    LET laneWidth ==
            IF laneInfo.hasWidth /\ Truthy(laneInfo.width)
            THEN JsDiv(laneInfo.width, JsAdd(laneInfo.lanesForward, laneInfo.lanesBackward))
            ELSE DEFAULT_LANE_WIDTH
        maxSpeed ==
            IF laneInfo.hasMaxSpeed /\ Truthy(laneInfo.maxSpeed) THEN laneInfo.maxSpeed
            ELSE getDefaultMaxSpeed(IF HasTag(way.tags, "highway") THEN way.tags["highway"]
                                    ELSE "unclassified")
        laneType == getLaneType(way.tags)
        first == NodeRef(way.nodes[1])
        last == NodeRef(way.nodes[Len(way.nodes)])
        forwardOffsets == calculateLaneOffsets(laneInfo.lanesForward, laneWidth, 1)
        backwardOffsets == calculateLaneOffsets(laneInfo.lanesBackward, laneWidth, -1)
    IN  \* forward lanes
        [k \in 1..LoopCount(laneInfo.lanesForward) |->
            [id |-> "way_" \o ToString(way.id) \o "_fwd_" \o ToString(k - 1),
             poly |-> offsetPolyline(centerline, forwardOffsets[k]),
             width |-> laneWidth,
             maxSpeed |-> maxSpeed,
             dir |-> 1,
             type |-> laneType,
             fromNode |-> first,
             toNode |-> last,
             turnHint |-> extractTurnHint(laneInfo.turnLanes, k - 1)]]
        \o \* backward lanes (if not oneway)
        (IF laneInfo.isOneway THEN <<>>
         ELSE [k \in 1..LoopCount(laneInfo.lanesBackward) |->
                 [id |-> "way_" \o ToString(way.id) \o "_bwd_" \o ToString(k - 1),
                  poly |-> Reverse(offsetPolyline(centerline, backwardOffsets[k])),
                  width |-> laneWidth,
                  maxSpeed |-> maxSpeed,
                  dir |-> -1,
                  type |-> laneType,
                  fromNode |-> last,
                  toNode |-> first,
                  turnHint |-> Undefined]])

\* buildLanesFromWay without the check of the centerline's length
buildLanesFromWay_NoLengthCheck(way, nodes, laneInfo) ==
    LanesOver(wayToPolyline(way, nodes), way, laneInfo)

buildLanesFromWay(way, nodes, laneInfo) ==
    LET centerline == wayToPolyline(way, nodes)
    IN  IF Len(centerline) < 2 THEN <<>> ELSE LanesOver(centerline, way, laneInfo)

----------------------------------------------------------------------------
(* IntersectionBuilder.  Math.PI is 180. *)

\* number of times id occurs in the sequence s
RECURSIVE Count(_, _)
Count(s, id) ==
    IF s = <<>> THEN 0 ELSE (IF Head(s) = id THEN 1 ELSE 0) + Count(Tail(s), id)

\* the distinct members of s in the order of their first occurrence (the key
\* order of a Map filled by walking s)
RECURSIVE KeyOrder(_)
KeyOrder(s) ==
    IF s = <<>> THEN <<>>
    ELSE LET rest == KeyOrder(SubSeq(s, 1, Len(s) - 1))
             x == s[Len(s)]
         IN  IF \E i \in 1..Len(rest) : rest[i] = x THEN rest ELSE Append(rest, x)

\* nodeUsage: every entry of every way's node list adds one
nodeUsage(ways, nodeId) == Count(Flatten([i \in 1..Len(ways) |-> ways[i].nodes]), nodeId)

IntersectionDegree == 3

findIntersectionNodes(ways, nodes) ==
    LET refs == Flatten([i \in 1..Len(ways) |-> ways[i].nodes])
        candidates ==
            SelectSeq(KeyOrder(refs),
                      LAMBDA id : Count(refs, id) >= IntersectionDegree /\ MapGet(nodes, id) # NoNode)
    IN  [i \in 1..Len(candidates) |-> MapGet(nodes, candidates[i])]

\* while (d > PI) d -= 2 * PI;  while (d < -PI) d += 2 * PI;
RECURSIVE NormalizeAngle(_)
NormalizeAngle(d) ==
    IF JsGt(d, 180) THEN NormalizeAngle(JsSub(d, 360))
    ELSE IF JsLt(d, -180) THEN NormalizeAngle(JsAdd(d, 360))
    ELSE d

JsAbs(a) == IF IsNaN(a) THEN NaN ELSE Abs(a)

MaxTurnAngle == 135

\* angleDiff of isTurnFeasible, both lanes having two points
FeasibilityAngle(inLane, outLane) ==
    LET inEnd == inLane.poly[Len(inLane.poly)]
        inSecondLast == inLane.poly[Len(inLane.poly) - 1]
        outStart == outLane.poly[1]
        outSecond == outLane.poly[2]
    IN  NormalizeAngle(JsSub(
            \* departureAngle
            Atan2(JsSub(outSecond[2], outStart[2]), JsSub(outSecond[1], outStart[1])),
            \* approachAngle
            Atan2(JsSub(inEnd[2], inSecondLast[2]), JsSub(inEnd[1], inSecondLast[1]))))

\* isTurnFeasible with < for <=
isTurnFeasible_Strict(inLane, outLane, centerPoint) ==
    IF Len(inLane.poly) < 2 \/ Len(outLane.poly) < 2 THEN FALSE
    ELSE JsLt(JsAbs(FeasibilityAngle(inLane, outLane)), MaxTurnAngle)

isTurnFeasible(inLane, outLane, centerPoint) ==
    IF Len(inLane.poly) < 2 \/ Len(outLane.poly) < 2 THEN FALSE
    ELSE JsLe(JsAbs(FeasibilityAngle(inLane, outLane)), MaxTurnAngle)

generateConnectorPath(inLane, outLane, centerPoint) ==
    <<inLane.poly[Len(inLane.poly)], centerPoint, outLane.poly[1]>>

calculateTurnAngle(inLane, outLane) ==
    LET inEnd == inLane.poly[Len(inLane.poly)]
        inSecondLast == IF Len(inLane.poly) >= 2 THEN inLane.poly[Len(inLane.poly) - 1] ELSE inEnd
        outStart == outLane.poly[1]
        outSecond == IF Len(outLane.poly) >= 2 THEN outLane.poly[2] ELSE outStart
    IN  NormalizeAngle(JsSub(
            \* outAngle
            Atan2(JsSub(outSecond[2], outStart[2]), JsSub(outSecond[1], outStart[1])),
            \* inAngle
            Atan2(JsSub(inEnd[2], inSecondLast[2]), JsSub(inEnd[1], inSecondLast[1]))))

SlightAngle == 15
SharpAngle == 30

\* turnHintMatches with a through band that reaches the far edge of the slight bands
turnHintMatches_WideThrough(turnHint, turnAngle) ==
    LET angle == JsAbs(turnAngle)
    IN  CASE turnHint = "left" -> JsGt(turnAngle, SharpAngle)
          [] turnHint = "slight_left" -> JsGt(turnAngle, SlightAngle) /\ JsLe(turnAngle, SharpAngle)
          [] turnHint = "through" -> JsLe(angle, SharpAngle)
          [] turnHint = "slight_right" -> JsLt(turnAngle, -SlightAngle) /\ JsGe(turnAngle, -SharpAngle)
          [] turnHint = "right" -> JsLt(turnAngle, -SharpAngle)
          [] OTHER -> TRUE

turnHintMatches(turnHint, turnAngle) ==
    LET angle == JsAbs(turnAngle)
    IN  CASE turnHint = "left" -> JsGt(turnAngle, SharpAngle)
          [] turnHint = "slight_left" -> JsGt(turnAngle, SlightAngle) /\ JsLe(turnAngle, SharpAngle)
          [] turnHint = "through" -> JsLe(angle, SlightAngle)
          [] turnHint = "slight_right" -> JsLt(turnAngle, -SlightAngle) /\ JsGe(turnAngle, -SharpAngle)
          [] turnHint = "right" -> JsLt(turnAngle, -SharpAngle)
          [] OTHER -> TRUE

isMovementAllowed(inLane, outLane) ==
    IF inLane.turnHint # Undefined
    THEN turnHintMatches(inLane.turnHint, calculateTurnAngle(inLane, outLane))
    ELSE TRUE

\* the connector the two nested loops of generateConnectors push for one
\* pair of lanes, none when the turn is not feasible
\* ConnectorBetween that names the connector after its source lane only
ConnectorBetween_IdBySource(inLane, outLane, centerPoint) ==
    IF isTurnFeasible(inLane, outLane, centerPoint)
    THEN <<[id |-> "connector_" \o inLane.id,
            fromLane |-> inLane.id,
            toLane |-> outLane.id,
            path |-> generateConnectorPath(inLane, outLane, centerPoint),
            allowed |-> isMovementAllowed(inLane, outLane)]>>
    ELSE <<>>

ConnectorBetween(inLane, outLane, centerPoint) ==
    IF isTurnFeasible(inLane, outLane, centerPoint)
    THEN <<[id |-> "connector_" \o inLane.id \o "_to_" \o outLane.id,
            fromLane |-> inLane.id,
            toLane |-> outLane.id,
            path |-> generateConnectorPath(inLane, outLane, centerPoint),
            allowed |-> isMovementAllowed(inLane, outLane)]>>
    ELSE <<>>

generateConnectors(incomingLanes, outgoingLanes, intersectionNode) ==
    Flatten([i \in 1..Len(incomingLanes) |->
        Flatten([j \in 1..Len(outgoingLanes) |->
            ConnectorBetween(incomingLanes[i], outgoingLanes[j],
                             <<intersectionNode.lon, intersectionNode.lat>>)])])

determineControlType(intersectionNode, nodes) ==
    LET tags == intersectionNode.tags
    IN  IF Tag(tags, "highway") = "traffic_signals" THEN "signals"
        ELSE IF Tag(tags, "highway") = "stop" THEN "stop"
        ELSE IF Tag(tags, "highway") = "give_way" THEN "give_way"
        ELSE IF Tag(tags, "junction") = "roundabout" THEN "roundabout"
        ELSE IF Tag(tags, "priority_road") = "designated" THEN "priority"
        ELSE "uncontrolled"

\* connectorsConflict with && for ||
connectorsConflict_Both(connA, connB) ==
    connA.fromLane # connB.fromLane /\ connA.toLane # connB.toLane

connectorsConflict(connA, connB) ==
    connA.fromLane # connB.fromLane \/ connA.toLane # connB.toLane

\* Math.random() > 0.5 ? 'A' : 'B'  on the value random drew, in units of 1/Unit
RandomThreshold == 500

applyRightHandRule(connA, connB, random) ==
    IF random > RandomThreshold THEN "A" ELSE "B"

\* determinePriority that falls to the default case for every control
determinePriority_DefaultOnly(connA, connB, control, random) ==
    applyRightHandRule(connA, connB, random)

determinePriority(connA, connB, control, random) ==
    CASE control \in {"stop", "give_way"} -> "yield"
      [] control = "roundabout" -> "A"
      [] control = "priority" -> "A"
      [] OTHER -> applyRightHandRule(connA, connB, random)

\* the pairs (i, j), i < j, in the order of the two nested loops
PairsFrom(n) ==
    Flatten([i \in 1..n |-> [d \in 1..(n - i) |-> <<i, i + d>>]])

\* rnd is the stream Math.random draws from, calls the number of draws made
\* before this intersection; draw k is rnd[((k - 1) % Len(rnd)) + 1]
Draw(rnd, k) == rnd[((k - 1) % Len(rnd)) + 1]

\* the rules the two nested loops of generateRightOfWayRules push
ConflictRules(connectors, control, rnd, calls) ==
    LET pairs == SelectSeq(PairsFrom(Len(connectors)),
                           LAMBDA p : connectorsConflict(connectors[p[1]], connectors[p[2]]))
    IN  [k \in 1..Len(pairs) |->
            [connectorA |-> connectors[pairs[k][1]].id,
             connectorB |-> connectors[pairs[k][2]].id,
             hasPriority |-> determinePriority(connectors[pairs[k][1]],
                                               connectors[pairs[k][2]],
                                               control, Draw(rnd, calls + k))]]

\* generateRightOfWayRules without the early return for signals
generateRightOfWayRules_NoSignalsCase(connectors, control, rnd, calls) ==
    ConflictRules(connectors, control, rnd, calls)

generateRightOfWayRules(connectors, control, rnd, calls) ==
    IF control = "signals" THEN <<>> ELSE ConflictRules(connectors, control, rnd, calls)

\* the draws generateRightOfWayRules makes: one per rule of an intersection
\* whose control falls to the right-hand rule
DrawsMade(rules, control) ==
    IF control \in {"signals", "stop", "give_way", "roundabout", "priority"} THEN 0 ELSE Len(rules)

Ids(s) == [i \in 1..Len(s) |-> s[i].id]

\* the object buildIntersection returns once connectors and control are known
IntersectionOf(intersectionNode, incomingLanes, outgoingLanes, connectors, control, rnd, calls) ==
    [intersection |->
        [id |-> "intersection_" \o ToString(intersectionNode.id),
         incoming |-> Ids(incomingLanes),
         outgoing |-> Ids(outgoingLanes),
         connectors |-> Ids(connectors),
         control |-> control,
         rules |-> generateRightOfWayRules(connectors, control, rnd, calls)],
     connectors |-> connectors]

buildIntersection(intersectionNode, incomingLanes, outgoingLanes, nodes, rnd, calls) ==
    IntersectionOf(intersectionNode, incomingLanes, outgoingLanes,
                   generateConnectors(incomingLanes, outgoingLanes, intersectionNode),
                   determineControlType(intersectionNode, nodes), rnd, calls)

----------------------------------------------------------------------------
(* NetworkBuilder.  A Record<string, T> is the sequence of its values in    *)
(* key order; keys are the values' ids.                                     *)

RECURSIVE arrayToRecord(_)
arrayToRecord(array) ==
    IF array = <<>> THEN <<>>
    ELSE MapSet(arrayToRecord(SubSeq(array, 1, Len(array) - 1)), array[Len(array)])

buildAllLanes(roadWays, nodes) ==
    Flatten([i \in 1..Len(roadWays) |->
                buildLanesFromWay(roadWays[i], nodes, extractLaneInfo(roadWays[i]))])

\* Pushed without laneConnectors.push(...connectors)
Pushed_WithoutConnectors(sofar, built) ==
    [intersections |-> Append(sofar.intersections, built.intersection),
     laneConnectors |-> sofar.laneConnectors,
     calls |-> sofar.calls + DrawsMade(built.intersection.rules, built.intersection.control)]

\* intersections.push(intersection); laneConnectors.push(...connectors);
\* calls counts the Math.random draws so far
Pushed(sofar, built) ==
    [intersections |-> Append(sofar.intersections, built.intersection),
     laneConnectors |-> sofar.laneConnectors \o built.connectors,
     calls |-> sofar.calls + DrawsMade(built.intersection.rules, built.intersection.control)]

\* IntersectionStep that takes every lane for an outgoing lane
IntersectionStep_AnyOutgoing(sofar, node, allLanes, nodes, rnd) ==
    LET nodeId == NodeRef(node.id)
        incomingLanes == SelectSeq(allLanes, LAMBDA lane : lane.toNode = nodeId)
    IN  IF Len(incomingLanes) > 0 /\ Len(allLanes) > 0
        THEN Pushed(sofar, buildIntersection(node, incomingLanes, allLanes, nodes, rnd,
                                             sofar.calls))
        ELSE sofar

\* one round of the loop over intersectionNodes
IntersectionStep(sofar, node, allLanes, nodes, rnd) ==
    LET nodeId == NodeRef(node.id)
        incomingLanes == SelectSeq(allLanes, LAMBDA lane : lane.toNode = nodeId)
        outgoingLanes == SelectSeq(allLanes, LAMBDA lane : lane.fromNode = nodeId)
    IN  IF Len(incomingLanes) > 0 /\ Len(outgoingLanes) > 0
        THEN Pushed(sofar, buildIntersection(node, incomingLanes, outgoingLanes, nodes, rnd,
                                             sofar.calls))
        ELSE sofar

\* the loop over intersectionNodes, calls draws of Math.random made before it
RECURSIVE buildIntersections(_, _, _, _, _)
buildIntersections(intersectionNodes, allLanes, nodes, rnd, calls) ==
    IF intersectionNodes = <<>>
    THEN [intersections |-> <<>>, laneConnectors |-> <<>>, calls |-> calls]
    ELSE IntersectionStep(
             buildIntersections(SubSeq(intersectionNodes, 1, Len(intersectionNodes) - 1),
                                allLanes, nodes, rnd, calls),
             intersectionNodes[Len(intersectionNodes)], allLanes, nodes, rnd)

buildPedestrianNetwork(els, nodes) ==
    LET crossings == SelectSeq(els, LAMBDA el : el.type = "node" /\ Tag(el.tags, "highway") = "crossing")
    IN  [pedNodes |-> <<>>,
         pedEdges |-> <<>>,
         crosswalks |->
            [i \in 1..Len(crossings) |->
                [id |-> "crosswalk_" \o ToString(crossings[i].id),
                 segment |-> << <<crossings[i].lon, crossings[i].lat>>,
                                <<crossings[i].lon, crossings[i].lat>> >>,
                 hasSignals |-> Tag(crossings[i].tags, "crossing") = "traffic_signals",
                 priority |-> IF Tag(crossings[i].tags, "crossing") = "uncontrolled"
                              THEN "cars_over_ped" ELSE "ped_over_cars"]],
         crossLinks |-> <<>>]

RECURSIVE calculateBounds(_)
calculateBounds(nodes) ==
    IF nodes = <<>>
    THEN [minLat |-> Infinity, maxLat |-> NegInfinity, minLon |-> Infinity, maxLon |-> NegInfinity]
    ELSE LET b == calculateBounds(SubSeq(nodes, 1, Len(nodes) - 1))
             node == nodes[Len(nodes)]
         IN  [minLat |-> JsMin(b.minLat, node.lat),
              maxLat |-> JsMax(b.maxLat, node.lat),
              minLon |-> JsMin(b.minLon, node.lon),
              maxLon |-> JsMax(b.maxLon, node.lon)]

\* new Date().toISOString() at time now
toISOString(now) == "T" \o ToString(now)

\* the RoadNetwork object processOSMData assembles, and the draws made
NetworkOf(allLanes, built, ped, bounds, now) ==
    [network |->
        [lanes |-> arrayToRecord(allLanes),
         laneConnectors |-> arrayToRecord(built.laneConnectors),
         intersections |-> arrayToRecord(built.intersections),
         pedNodes |-> arrayToRecord(ped.pedNodes),
         pedEdges |-> arrayToRecord(ped.pedEdges),
         crosswalks |-> arrayToRecord(ped.crosswalks),
         crossLinks |-> arrayToRecord(ped.crossLinks),
         bounds |-> bounds,
         version |-> "1.0.0",
         generatedAt |-> toISOString(now),
         source |-> "osm"],
     calls |-> built.calls]

\* processOSMData from the point where the lanes are built
ProcessLanes(els, nodes, roadWays, allLanes, rnd, now) ==
    NetworkOf(allLanes,
              buildIntersections(findIntersectionNodes(roadWays, nodes), allLanes, nodes, rnd, 0),
              buildPedestrianNetwork(els, nodes),
              calculateBounds(nodes),
              now)

processOSMData(els, rnd, now) ==
    LET nodes == extractNodesMap(els)
        roadWays == SelectSeq(SelectSeq(els, LAMBDA el : el.type = "way"), isCarWay)
    IN  ProcessLanes(els, nodes, roadWays, buildAllLanes(roadWays, nodes), rnd, now)

----------------------------------------------------------------------------
(* RoadNetworkManager: serialization *)

NoNetwork == [built |-> FALSE]
NoJSON == [text |-> FALSE]

\* JSON.stringify writes a number that is not finite as null
JsonNumber(v) == IF IsFinite(v) THEN v ELSE JsNull

JsonPoints(points) ==
    [i \in 1..Len(points) |-> <<JsonNumber(points[i][1]), JsonNumber(points[i][2])>>]

\* JSON.stringify leaves out a property whose value is undefined (turnHint)
StringifyLane(lane) ==
    LET numbers == [lane EXCEPT !.poly = JsonPoints(lane.poly),
                                !.width = JsonNumber(lane.width),
                                !.maxSpeed = JsonNumber(lane.maxSpeed)]
    IN  [k \in {f \in DOMAIN lane : f # "turnHint" \/ lane.turnHint # Undefined} |-> numbers[k]]

StringifyConnector(c) == [c EXCEPT !.path = JsonPoints(c.path)]

StringifyCrosswalk(c) == [c EXCEPT !.segment = JsonPoints(c.segment)]

toJSON(net) ==
    [net EXCEPT
        !.lanes = [i \in 1..Len(net.lanes) |-> StringifyLane(net.lanes[i])],
        !.laneConnectors = [i \in 1..Len(net.laneConnectors) |->
                                StringifyConnector(net.laneConnectors[i])],
        !.crosswalks = [i \in 1..Len(net.crosswalks) |-> StringifyCrosswalk(net.crosswalks[i])],
        !.bounds = [k \in DOMAIN net.bounds |-> JsonNumber(net.bounds[k])]]

LaneFields ==
    {"id", "poly", "width", "maxSpeed", "dir", "type", "fromNode", "toNode", "turnHint"}

\* a property the parsed object does not have reads as undefined
ParseLane(obj) == [k \in LaneFields |-> IF k \in DOMAIN obj THEN obj[k] ELSE Undefined]

\* JSON.parse(json) as RoadNetwork: the cast checks nothing, so an object
\* without lanes is returned as it is
fromJSON(text) ==
    IF "lanes" \in DOMAIN text
    THEN [text EXCEPT !.lanes = [i \in 1..Len(text.lanes) |-> ParseLane(text.lanes[i])]]
    ELSE text

----------------------------------------------------------------------------
(* RoadNetworkManager: queries.  net is the wrapped snapshot this.network.  *)

\* a lane, connector or intersection the query did not find
Null == [id |-> "null"]

\* x ** 2 and Math.sqrt on squared coordinate units
JsSquare(a) == JsMul(a, a, 1)
JsSqrt(a) == IF IsNaN(a) \/ a < 0 THEN NaN ELSE IF IsInf(a) THEN Infinity ELSE Sqrt(a)

distance(a, b) ==
    JsSqrt(JsAdd(JsSquare(JsSub(a[1], b[1])), JsSquare(JsSub(a[2], b[2]))))

\* Math.max(0, Math.min(1, num / lengthSq)) in units of 1/Unit, lengthSq # 0;
\* the division keeps six digits of a finite quotient
ClampedRatio(num, lengthSq) ==
    IF IsFinite(num) /\ IsFinite(lengthSq)
    THEN IF num <= 0 THEN 0
         ELSE IF num >= lengthSq THEN Unit
         ELSE RDiv((num \div (lengthSq \div 1000000 + 1)) * Unit,
                   lengthSq \div (lengthSq \div 1000000 + 1))
    ELSE JsMax(0, JsMin(Unit, JsMul(JsDiv(num, lengthSq), Unit, 1)))

\* the distance from point to the point of the segment at parameter t
DistanceAt(point, segStart, dx, dy, t) ==
    JsSqrt(JsAdd(JsSquare(JsSub(point[1], JsAdd(segStart[1], JsMul(t, dx, Unit)))),
                 JsSquare(JsSub(point[2], JsAdd(segStart[2], JsMul(t, dy, Unit))))))

\* distanceToSegment once dx and dy are known
DistanceAlong(point, segStart, dx, dy) ==
    IF JsAdd(JsSquare(dx), JsSquare(dy)) = 0 THEN distance(point, segStart)
    ELSE DistanceAt(point, segStart, dx, dy,
                    ClampedRatio(JsAdd(JsMul(JsSub(point[1], segStart[1]), dx, 1),
                                       JsMul(JsSub(point[2], segStart[2]), dy, 1)),
                                 JsAdd(JsSquare(dx), JsSquare(dy))))

distanceToSegment(point, segStart, segEnd) ==
    DistanceAlong(point, segStart, JsSub(segEnd[1], segStart[1]), JsSub(segEnd[2], segStart[2]))

\* the loop of distanceToPolyline over the first n segments
RECURSIVE SegmentsMin(_, _, _)
SegmentsMin(point, polyline, n) ==
    IF n = 0 THEN Infinity
    ELSE JsMin(SegmentsMin(point, polyline, n - 1),
               distanceToSegment(point, polyline[n], polyline[n + 1]))

distanceToPolyline(point, polyline) ==
    IF Len(polyline) = 0 THEN Infinity
    ELSE IF Len(polyline) = 1 THEN distance(point, polyline[1])
    ELSE SegmentsMin(point, polyline, Len(polyline) - 1)

\* Nearer with <= for <
Nearer_OrEqual(best, lane, dist) ==
    IF JsLe(dist, best.minDistance) THEN [nearestLane |-> lane, minDistance |-> dist] ELSE best

\* if (distance < minDistance) { minDistance = distance; nearestLane = lane; }
Nearer(best, lane, dist) ==
    IF JsLt(dist, best.minDistance) THEN [nearestLane |-> lane, minDistance |-> dist] ELSE best

\* the loop of findNearestLane over the first n lanes
RECURSIVE NearestAmong(_, _, _, _)
NearestAmong(lanes, n, worldPos, maxDistance) ==
    IF n = 0 THEN [nearestLane |-> Null, minDistance |-> maxDistance]
    ELSE Nearer(NearestAmong(lanes, n - 1, worldPos, maxDistance),
                lanes[n], distanceToPolyline(worldPos, lanes[n].poly))

\* findNearestLane that starts from Infinity, not from maxDistance
findNearestLane_NoThreshold(net, worldPos, maxDistance) ==
    NearestAmong(net.lanes, Len(net.lanes), worldPos, Infinity).nearestLane

findNearestLane(net, worldPos, maxDistance) ==
    NearestAmong(net.lanes, Len(net.lanes), worldPos, maxDistance).nearestLane

\* record[id] of a Record<string, T>: Null when the key is absent
RecordGet(record, id) ==
    IF \E i \in 1..Len(record) : record[i].id = id
    THEN record[CHOOSE i \in 1..Len(record) : record[i].id = id]
    ELSE Null

\* array.find(pred): the first member that satisfies Test, Null when none does
Find(array, Test(_)) ==
    IF \E i \in 1..Len(array) : Test(array[i])
    THEN array[CHOOSE i \in 1..Len(array) :
                   Test(array[i]) /\ \A j \in 1..(i - 1) : ~Test(array[j])]
    ELSE Null

\* intersection.connectors.map(id => laneConnectors[id]).filter(Boolean)
ConnectorsOf(net, intersection) ==
    SelectSeq([i \in 1..Len(intersection.connectors) |->
                  RecordGet(net.laneConnectors, intersection.connectors[i])],
              LAMBDA c : c # Null)

getIntersectionConnectors(net, intersectionId) ==
    IF RecordGet(net.intersections, intersectionId) = Null THEN <<>>
    ELSE ConnectorsOf(net, RecordGet(net.intersections, intersectionId))

\* AllowedOf that tells whether a connector was found
AllowedOf_Found(connector) == connector # Null

\* connector?.allowed ?? false
AllowedOf(connector) == IF connector = Null THEN FALSE ELSE connector.allowed

\* RoadNetworkManager.isMovementAllowed
ManagerIsMovementAllowed(net, fromLaneId, toLaneId) ==
    AllowedOf(Find(net.laneConnectors,
                   LAMBDA c : c.fromLane = fromLaneId /\ c.toLane = toLaneId))

\* getConflictingMovements that reads only the connectorA side of a rule
ConflictsIn_OneSided(rules, connectorId) ==
    Flatten([i \in 1..Len(rules) |->
                IF rules[i].connectorA = connectorId THEN <<rules[i].connectorB>>
                ELSE <<>>])

\* the loop of getConflictingMovements over the rules of the intersection
ConflictsIn(rules, connectorId) ==
    Flatten([i \in 1..Len(rules) |->
                IF rules[i].connectorA = connectorId THEN <<rules[i].connectorB>>
                ELSE IF rules[i].connectorB = connectorId THEN <<rules[i].connectorA>>
                ELSE <<>>])

\* the rules of the intersection found, none when no intersection was found
RulesOf(intersection) == IF intersection = Null THEN <<>> ELSE intersection.rules

getConflictingMovements(net, connectorId) ==
    IF RecordGet(net.laneConnectors, connectorId) = Null THEN <<>>
    ELSE ConflictsIn(RulesOf(Find(net.intersections,
                                  LAMBDA i : \E k \in 1..Len(i.connectors) :
                                                 i.connectors[k] = connectorId)),
                     connectorId)

getBounds(net) == net.bounds

getMetadata(net) ==
    [version |-> net.version,
     generatedAt |-> net.generatedAt,
     source |-> net.source,
     stats |-> [lanes |-> Len(net.lanes),
                connectors |-> Len(net.laneConnectors),
                intersections |-> Len(net.intersections),
                crosswalks |-> Len(net.crosswalks)]]

----------------------------------------------------------------------------
(* Source data: a hub node and up to three ways around it *)

\* 1000 * cos and 1000 * sin of a whole degree
SinDeg(a) ==
    LET m == a % 360
    IN  IF m <= 90 THEN Sin90(m)
        ELSE IF m <= 180 THEN Sin90(180 - m)
        ELSE IF m <= 270 THEN -Sin90(m - 180)
        ELSE -Sin90(360 - m)
CosDeg(a) == SinDeg(a + 90)

HubPoint == <<14400, 50070>>

\* the point at distance r from the hub in the direction of a degrees
Polar(a, r) ==
    <<HubPoint[1] + RDiv(r * CosDeg(a), Unit), HubPoint[2] + RDiv(r * SinDeg(a), Unit)>>

Node(id, point, tags) ==
    [type |-> "node", id |-> id, lat |-> point[2], lon |-> point[1], tags |-> tags]

Way(id, nodeIds, tags) == [type |-> "way", id |-> id, nodes |-> nodeIds, tags |-> tags]

\* tag values the code parses
TxtThrough == <<"t", "h", "r", "o", "u", "g", "h">>
TxtLeft == <<"l", "e", "f", "t">>
TxtRight == <<"r", "i", "g", "h", "t">>
TxtSlightLeft == <<"s", "l", "i", "g", "h", "t", "_", "l", "e", "f", "t">>
TxtSlightRight == <<"s", "l", "i", "g", "h", "t", "_", "r", "i", "g", "h", "t">>

Residential == "highway" :> "residential"
Oneway == ("oneway" :> "yes") @@ ("lanes" :> <<"1">>) @@ Residential

\* a way option: the shape of its node list around the hub, the direction of
\* its arm, its tags, and what becomes of its node next to the hub ("plain":
\* an untagged node element, "stop": a node element tagged highway=stop,
\* "crossing": tagged highway=crossing, "missing": no node element at all)
Opt(shape, angle, tags, near) == [shape |-> shape, angle |-> angle, tags |-> tags, near |-> near]

NoWay == Opt("none", 0, NoTags, "plain")

\* the arm the first way comes in on: from the east, so that its lanes reach
\* the hub heading 180 degrees
Way1Options ==
    {Opt("in", 0, Oneway, "plain"),
     Opt("in", 0, ("turn:lanes" :> TxtThrough) @@ Oneway, "plain"),
     Opt("in", 0, ("turn:lanes" :> TxtLeft) @@ Oneway, "plain"),
     Opt("in", 0, ("turn:lanes" :> TxtSlightLeft) @@ Oneway, "plain"),
     Opt("in", 0, ("turn:lanes" :> TxtSlightRight) @@ Oneway, "plain"),
     Opt("in", 0, ("turn:lanes" :> TxtRight) @@ Oneway, "plain"),
     Opt("in3", 0, Residential, "stop"),
     Opt("in3", 0, Residential, "missing"),
     Opt("in", 0, Residential, "missing")}

\* the arm the second way leaves on: heading 180 + d for the turn angles d
\* around the bands 15, 30 and 135
Way2Options ==
    {Opt("out", 180 + d, Oneway, "plain") : d \in {10, 15, 30, 40, 135, 140, -10, -15, -30, -40, -135}}
    \cup {Opt("out", 270, Residential, "plain"), NoWay}

Way3Options ==
    {NoWay,
     Opt("out", 90, Residential, "plain"),
     Opt("in", 90, ("lanes" :> <<"2">>) @@ Residential, "crossing"),
     Opt("out", 90, ("lanes" :> <<"3">>) @@ ("width" :> <<"7">>) @@ Residential, "plain"),
     Opt("out", 90, ("width" :> <<"-", "7">>) @@ Residential, "plain"),
     Opt("out", 90, ("lanes:backward" :> <<"x">>) @@ ("width" :> <<"7">>) @@ Residential, "plain"),
     Opt("out", 90, ("lanes:forward" :> <<"1">>) @@ ("lanes:backward" :> <<"-", "1">>)
                    @@ ("width" :> <<"7">>) @@ Residential, "plain"),
     Opt("loop", 90, Residential, "plain"),
     Opt("pass", 90, Residential, "plain"),
     Opt("out3", 90, ("maxspeed" :> <<"3", "0", " ", "m", "p", "h">>) @@ Residential, "plain"),
     Opt("out", 90, ("maxspeed" :> <<"0">>) @@ ("lanes" :> <<"0">>) @@ Residential, "plain"),
     Opt("in", 90, ("turn:lanes" :> (TxtLeft \o <<"|">> \o TxtThrough \o <<";">> \o TxtRight))
                   @@ ("oneway" :> "yes") @@ Residential, "plain"),
     Opt("out", 220, Oneway, "plain"),
     Opt("out", 90, "highway" :> "footway", "plain")}

HubOptions ==
    {"plain", "traffic_signals", "stop", "give_way", "roundabout", "priority", "missing"}

HubTags(h) ==
    CASE h = "plain" -> NoTags
      [] h = "roundabout" -> "junction" :> "roundabout"
      [] h = "priority" -> "priority_road" :> "designated"
      [] OTHER -> "highway" :> h

NearId(wayId) == 10 * wayId + 1
FarId(wayId) == 10 * wayId + 2
SideId(wayId) == 10 * wayId + 3
\* the hub has the id the numbering gives the first node of a way 0
HubId == NearId(0)

WayNodeIds(wayId, opt) ==
    CASE opt.shape = "in" -> <<NearId(wayId), HubId>>
      [] opt.shape = "out" -> <<HubId, NearId(wayId)>>
      [] opt.shape = "in3" -> <<FarId(wayId), NearId(wayId), HubId>>
      [] opt.shape = "out3" -> <<HubId, NearId(wayId), FarId(wayId)>>
      [] opt.shape = "loop" -> <<HubId, NearId(wayId), SideId(wayId), HubId>>
      [] opt.shape = "pass" -> <<NearId(wayId), HubId, SideId(wayId)>>

\* the node elements the answer carries for a way, then the way itself
WayElements(wayId, opt) ==
    IF opt.shape = "none" THEN <<>>
    ELSE (IF opt.near = "missing" THEN <<>>
          ELSE <<Node(NearId(wayId), Polar(opt.angle, 1000),
                      IF opt.near = "plain" THEN NoTags ELSE "highway" :> opt.near)>>)
         \o (IF opt.shape \in {"in3", "out3"}
             THEN <<Node(FarId(wayId), Polar(opt.angle, 2000), NoTags)>> ELSE <<>>)
         \o (IF opt.shape \in {"loop", "pass"}
             THEN <<Node(SideId(wayId), Polar(opt.angle + 60, 1000), NoTags)>> ELSE <<>>)
         \o <<Way(wayId, WayNodeIds(wayId, opt), opt.tags)>>

MakeElements(hub, o1, o2, o3) ==
    (IF hub = "missing" THEN <<>> ELSE <<Node(HubId, HubPoint, HubTags(hub))>>)
    \o WayElements(1, o1) \o WayElements(2, o2) \o WayElements(3, o3)

BaseHub == "plain"
BaseWay1 == Opt("in", 0, Oneway, "plain")
BaseWay2 == Opt("out", 190, Oneway, "plain")
BaseWay3 == Opt("out", 90, Residential, "plain")

\* how many of the four choices differ from the base answer
Deviations(hub, o1, o2, o3) ==
    (IF hub = BaseHub THEN 0 ELSE 1) + (IF o1 = BaseWay1 THEN 0 ELSE 1)
    + (IF o2 = BaseWay2 THEN 0 ELSE 1) + (IF o3 = BaseWay3 THEN 0 ELSE 1)

\* the answers of the service: the base answer (three arms around an untagged
\* hub) changed in at most two of its four choices, and the answer without
\* elements
Inputs ==
    {MakeElements(c[1], c[2], c[3], c[4]) :
        c \in {d \in HubOptions \X Way1Options \X Way2Options \X Way3Options :
                  Deviations(d[1], d[2], d[3], d[4]) <= 2}}
    \cup {<<>>}

\* Math.random() returns a value of [0, 1), in units of 1/Unit
RandomValues == {250, 750}
RandomPeriod == 1
MaxBuilds == 1

----------------------------------------------------------------------------
(* State machine *)

NoRef == 0
\* an object literal is a new object: an identity no live reference has
NewObject_Reused(live) == CHOOSE r \in live : \A q \in live : q <= r
NewObject(live) == CHOOSE r \in 1..(Cardinality(live) + 1) : r \notin live /\ \A q \in 1..(r - 1) : q \in live

\* what the holder of the object ref reads after value is stored in the
\* object written: this.network keeps a reference, not a copy
Seen(ref, held, written, value) == IF ref = written THEN value ELSE held

NoResponse == [kind |-> "none"]
Awaited == [kind |-> "awaited"]
NoError == [name |-> "none"]
NoAnswer == [op |-> "none"]

\* nothing fetched, nothing asked
Idle ==
    /\ networkRef = NoRef
    /\ managerRef = NoRef
    /\ response = NoResponse
    /\ requests = 0
    /\ elapsed = 0
    /\ error = NoError
    /\ answer = NoAnswer
    /\ loading = FALSE
    /\ loadError = Null

Init ==
    /\ elements \in Inputs
    /\ randomSource \in [1..RandomPeriod -> RandomValues]
    /\ clock = 0
    /\ network = NoNetwork
    /\ manager = NoNetwork
    /\ json = NoJSON
    /\ loaded = NoNetwork
    /\ Idle

\* the values of randomSource left after n draws
Rotate(s, n) == [i \in 1..Len(s) |-> s[((i - 1 + n) % Len(s)) + 1]]

\* NetworkBuilder.buildPragueNetwork, the fetch answering with elements
Build ==
    /\ clock < MaxBuilds
    /\ \E result \in {processOSMData(elements, randomSource, clock)} :
           /\ network' = result.network
           /\ networkRef' = NewObject({networkRef, managerRef})
           /\ manager' = Seen(managerRef, manager, networkRef', result.network)
           /\ randomSource' = Rotate(randomSource, result.calls)
    /\ clock' = clock + 1
    /\ UNCHANGED <<clientVars, elements, json, loaded, managerRef, fetchVars, answer>>

\* new RoadNetworkManager(network)
NewManager ==
    /\ network # NoNetwork
    /\ manager' = network
    /\ managerRef' = networkRef
    /\ json' = NoJSON
    /\ loaded' = NoNetwork
    /\ answer' = NoAnswer
    /\ UNCHANGED <<clientVars, elements, clock, randomSource, network, networkRef, fetchVars>>

\* manager.toJSON()
ToJSON ==
    /\ manager # NoNetwork
    /\ json' = toJSON(manager)
    /\ loaded' = NoNetwork
    /\ UNCHANGED <<clientVars, elements, clock, randomSource, network, manager, networkRef, managerRef,
                   fetchVars, answer>>

\* RoadNetworkManager.fromJSON(json)
FromJSON ==
    /\ json # NoJSON
    /\ loaded' = fromJSON(json)
    /\ UNCHANGED <<clientVars, elements, clock, randomSource, network, manager, json, networkRef,
                   managerRef, fetchVars, answer>>

Next == Build \/ NewManager \/ ToJSON \/ FromJSON

Spec == Init /\ [][Next]_vars

----------------------------------------------------------------------------
(* The service in use: build attempts whose fetch may fail, rebuilds, and   *)
(* the queries of a manager.                                                *)

\* the turn lanes, widths and arms the queries are asked about
CollinearWay2 == Opt("out", 180, Oneway, "plain")
LeftOnlyWay1 == Opt("in", 0, ("turn:lanes" :> TxtLeft) @@ Oneway, "plain")
NaNWidthWay3 ==
    Opt("out", 90, ("lanes:backward" :> <<"x">>) @@ ("width" :> <<"7">>) @@ Residential, "plain")

\* the element sets the service answers a fetch with
ServiceInputs ==
    {MakeElements(BaseHub, BaseWay1, BaseWay2, BaseWay3),
     MakeElements(BaseHub, BaseWay1, CollinearWay2, BaseWay3),
     MakeElements("stop", LeftOnlyWay1, BaseWay2, NaNWidthWay3)}

MaxRequests == 2

\* [timeout:30] of the query text, and the seconds the clock of the model
\* moves at a time
Deadline == 30
TickSeconds == 10

\* fetch rejects (network failure), answers with a status that is not ok,
\* or answers 200 with a body response.json() cannot read
Rejected == [kind |-> "rejected"]
Status(code) == [kind |-> "status", ok |-> code = 200, status |-> code]
Unreadable == [kind |-> "unreadable"]
FailureStatuses == {429, 504}

RejectionError == [name |-> "TypeError", message |-> "fetch failed"]
ApiError(code) == [name |-> "Error", message |-> "Overpass API error: " \o ToString(code)]
SyntaxError == [name |-> "SyntaxError", message |-> "Unexpected token"]

\* the value every Math.random() of the service in use returns
ServiceRandom == 250

ServiceInit ==
    /\ elements = <<>>
    /\ randomSource = [i \in 1..RandomPeriod |-> ServiceRandom]
    /\ clock = 0
    /\ network = NoNetwork
    /\ manager = NoNetwork
    /\ json = NoJSON
    /\ loaded = NoNetwork
    /\ Idle

\* buildPragueNetwork is called: fetchPragueRoadNetwork issues its fetch
Request ==
    /\ response # Awaited
    /\ requests < MaxRequests
    /\ response' = Awaited
    /\ requests' = requests + 1
    /\ elapsed' = 0
    /\ error' = NoError
    /\ UNCHANGED <<clientVars, elements, clock, randomSource, network, manager, json, loaded,
                   networkRef, managerRef, answer>>

\* the fetch answers 200 with elements: processOSMData, return network
Answer ==
    /\ response = Awaited
    /\ \E els \in ServiceInputs :
           /\ elements' = els
           /\ \E result \in {processOSMData(els, randomSource, clock)} :
                  /\ network' = result.network
                  /\ networkRef' = NewObject({networkRef, managerRef})
                  /\ manager' = Seen(managerRef, manager, networkRef', result.network)
                  /\ randomSource' = Rotate(randomSource, result.calls)
    /\ clock' = clock + 1
    /\ response' = Status(200)
    /\ UNCHANGED <<clientVars, json, loaded, managerRef, requests, elapsed, error, answer>>

\* what a build attempt that throws leaves alone
keptByThrow == <<clientVars, elements, clock, randomSource, network, manager, json, loaded,
                 networkRef, managerRef, requests, elapsed, answer>>

\* AnswerNotOk without the throw
AnswerNotOk_Swallowed ==
    /\ response = Awaited
    /\ \E code \in FailureStatuses :
           /\ response' = Status(code)
           /\ error' = NoError
    /\ UNCHANGED keptByThrow

\* if (!response.ok) throw new Error(...): thrown on to the caller of
\* buildPragueNetwork
AnswerNotOk ==
    /\ response = Awaited
    /\ \E code \in FailureStatuses :
           /\ response' = Status(code)
           /\ error' = ApiError(code)
    /\ UNCHANGED keptByThrow

\* await fetch(...) rejects
FetchRejects ==
    /\ response = Awaited
    /\ response' = Rejected
    /\ error' = RejectionError
    /\ UNCHANGED keptByThrow

\* await response.json() rejects
AnswerUnreadable ==
    /\ response = Awaited
    /\ response' = Unreadable
    /\ error' = SyntaxError
    /\ UNCHANGED keptByThrow

\* time passes while the fetch is awaited
Tick ==
    /\ response = Awaited
    /\ elapsed <= Deadline
    /\ elapsed' = elapsed + TickSeconds
    /\ UNCHANGED <<clientVars, elements, clock, randomSource, network, manager, json, loaded,
                   networkRef, managerRef, response, requests, error, answer>>

\* what a query of the manager leaves alone: all but its return value
keptByQuery == <<clientVars, elements, clock, randomSource, network, manager, json, loaded,
                 networkRef, managerRef, fetchVars>>

IsFinitePoint(point) == IsFinite(point[1]) /\ IsFinite(point[2])

\* the points findNearestLane is asked about: the first point of each lane,
\* the hub, and a point away from every lane
FarPoint == <<HubPoint[1] - 9000, HubPoint[2] - 9000>>
QueryPoints ==
    {point \in {manager.lanes[i].poly[1] : i \in 1..Len(manager.lanes)} : IsFinitePoint(point)}
    \cup {HubPoint, FarPoint}

\* maxDistance: none at all, one lane width, and the default of 50
DefaultMaxDistance == 50 * Unit
\* two metres: nearer than some lanes of a snapshot and farther than others
NearMaxDistance == 2 * Unit
MaxDistances == {0, NearMaxDistance, DefaultMaxDistance}

\* the pairs of lanes isMovementAllowed is asked about: those of the
\* connectors, the same pairs turned around, and a pair of unknown lanes
MovementPairs ==
    {<<manager.laneConnectors[i].fromLane, manager.laneConnectors[i].toLane>> :
        i \in 1..Len(manager.laneConnectors)}
    \cup {<<manager.laneConnectors[i].toLane, manager.laneConnectors[i].fromLane>> :
        i \in 1..Len(manager.laneConnectors)}
    \cup {<<"lane_unknown", "lane_unknown">>}
ConnectorIds ==
    {manager.laneConnectors[i].id : i \in 1..Len(manager.laneConnectors)}
    \cup {"connector_unknown"}
IntersectionIds ==
    {manager.intersections[i].id : i \in 1..Len(manager.intersections)}
    \cup {"intersection_unknown"}

FindNearestLane ==
    /\ manager # NoNetwork
    /\ \E worldPos \in QueryPoints, maxDistance \in MaxDistances :
           answer' = [op |-> "findNearestLane", worldPos |-> worldPos,
                      maxDistance |-> maxDistance,
                      result |-> findNearestLane(manager, worldPos, maxDistance)]
    /\ UNCHANGED keptByQuery

GetIntersectionConnectors ==
    /\ manager # NoNetwork
    /\ \E id \in IntersectionIds :
           answer' = [op |-> "getIntersectionConnectors", intersectionId |-> id,
                      result |-> getIntersectionConnectors(manager, id)]
    /\ UNCHANGED keptByQuery

IsMovementAllowed ==
    /\ manager # NoNetwork
    /\ \E pair \in MovementPairs :
           answer' = [op |-> "isMovementAllowed", fromLaneId |-> pair[1], toLaneId |-> pair[2],
                      result |-> ManagerIsMovementAllowed(manager, pair[1], pair[2])]
    /\ UNCHANGED keptByQuery

GetConflictingMovements ==
    /\ manager # NoNetwork
    /\ \E id \in ConnectorIds :
           answer' = [op |-> "getConflictingMovements", connectorId |-> id,
                      result |-> getConflictingMovements(manager, id)]
    /\ UNCHANGED keptByQuery

GetBounds ==
    /\ manager # NoNetwork
    /\ answer' = [op |-> "getBounds", result |-> getBounds(manager)]
    /\ UNCHANGED keptByQuery

\* GetMetadata that stamps the snapshot it has counted
GetMetadata_Stamped ==
    /\ manager # NoNetwork
    /\ answer' = [op |-> "getMetadata", result |-> getMetadata(manager)]
    /\ manager' = [manager EXCEPT !.source = "counted"]
    /\ UNCHANGED <<clientVars, elements, clock, randomSource, network, json, loaded,
                   networkRef, managerRef, fetchVars>>

\* getMetadata()
GetMetadata ==
    /\ manager # NoNetwork
    /\ answer' = [op |-> "getMetadata", result |-> getMetadata(manager)]
    /\ UNCHANGED keptByQuery

\* texts that no toJSON of this program wrote: one that is not JSON, the
\* text {}, and a snapshot that lost all fields but two
MalformedText == [syntax |-> "invalid"]
EmptyObjectText == [k \in {} |-> JsNull]
PartialText == [version |-> "1.0.0", lanes |-> <<>>]
ForeignTexts == {MalformedText, EmptyObjectText, PartialText}

\* RoadNetworkManager.fromJSON(text) on a text from elsewhere: JSON.parse
\* throws on a text that is not JSON, and what it returns is wrapped as it is
FromForeignJSON ==
    /\ \E text \in ForeignTexts :
           /\ answer' = [op |-> "fromJSON", text |-> text]
           /\ IF text = MalformedText
              THEN loaded' = NoNetwork /\ error' = SyntaxError
              ELSE loaded' = fromJSON(text) /\ error' = NoError
    /\ UNCHANGED <<clientVars, elements, clock, randomSource, network, manager, json, networkRef,
                   managerRef, response, requests, elapsed>>

ServiceNext ==
    \/ Request \/ Answer \/ NewManager \/ ToJSON
    \/ FindNearestLane \/ GetIntersectionConnectors \/ IsMovementAllowed
    \/ GetConflictingMovements \/ GetBounds \/ GetMetadata

Service == ServiceInit /\ [][ServiceNext]_vars

\* the build attempts and the loads, failures included, with the time the
\* fetch takes
FetchNext ==
    \/ Request \/ Tick \/ Answer \/ AnswerNotOk \/ FetchRejects \/ AnswerUnreadable
    \/ NewManager \/ ToJSON \/ FromJSON \/ FromForeignJSON

FetchSpec == ServiceInit /\ [][FetchNext]_vars

----------------------------------------------------------------------------
(* parseMaxSpeed on its own: maxspeed tags made of a number, blanks and a   *)
(* unit, and tags without a number                                          *)

MaxSpeedNumbers ==
    {[text |-> <<"5", "0">>, value |-> 50], [text |-> <<"3", "0">>, value |-> 30],
     [text |-> <<"5">>, value |-> 5], [text |-> <<"1", "2", "0">>, value |-> 120],
     [text |-> <<"0">>, value |-> 0], [text |-> <<"0", "7">>, value |-> 7]}

MaxSpeedBlanks == {<<>>, <<" ">>}

MaxSpeedUnits ==
    {<<>>, <<"k", "m", "h">>, <<"k", "m", "/", "h">>, <<"m", "p", "h">>,
     <<"K", "M", "/", "H">>, <<"M", "p", "h">>, <<"k", "n", "o", "t", "s">>}

MaxSpeedWords ==
    {<<>>, <<"n", "o", "n", "e">>, <<"w", "a", "l", "k">>, <<"m", "p", "h">>,
     <<"s", "i", "g", "n", "a", "l", "s">>}

\* a call of parseMaxSpeed not yet made: hasNumber tells a tag with a number
\* (value, then blanks, then unit) from a tag that is one word
MaxSpeedCalls ==
    {[op |-> "parseMaxSpeed", hasNumber |-> TRUE, value |-> n.value, unit |-> u,
      maxspeedTag |-> n.text \o b \o u, returned |-> FALSE, result |-> 0] :
        n \in MaxSpeedNumbers, b \in MaxSpeedBlanks, u \in MaxSpeedUnits}
    \cup
    {[op |-> "parseMaxSpeed", hasNumber |-> FALSE, value |-> 0, unit |-> w,
      maxspeedTag |-> w, returned |-> FALSE, result |-> 0] : w \in MaxSpeedWords}

ParseInit ==
    /\ elements = <<>>
    /\ randomSource = [i \in 1..RandomPeriod |-> ServiceRandom]
    /\ clock = 0
    /\ network = NoNetwork
    /\ manager = NoNetwork
    /\ json = NoJSON
    /\ loaded = NoNetwork
    /\ networkRef = NoRef
    /\ managerRef = NoRef
    /\ response = NoResponse
    /\ requests = 0
    /\ elapsed = 0
    /\ error = NoError
    /\ answer \in MaxSpeedCalls
    /\ loading = FALSE
    /\ loadError = Null

ParseMaxSpeed ==
    /\ answer.op = "parseMaxSpeed"
    /\ ~answer.returned
    /\ answer' = [answer EXCEPT !.returned = TRUE, !.result = parseMaxSpeed(answer.maxspeedTag)]
    /\ UNCHANGED keptByQuery

ParseNext == ParseMaxSpeed

ParseSpec == ParseInit /\ [][ParseNext]_vars

----------------------------------------------------------------------------
(* Builds repeated over one answer of the service                           *)

MaxRebuilds == 2

\* the answers built more than once: every control of the hub, with a third
\* way that leaves, that arrives over a crossing, or that is a loop
RebuildInputs ==
    {MakeElements(hub, BaseWay1, BaseWay2, o3) :
        hub \in HubOptions \ {"missing"},
        o3 \in {BaseWay3,
                Opt("in", 90, ("lanes" :> <<"2">>) @@ Residential, "crossing"),
                Opt("loop", 90, Residential, "plain")}}

RebuildInit ==
    /\ elements \in RebuildInputs
    /\ randomSource \in [1..RandomPeriod -> RandomValues]
    /\ clock = 0
    /\ network = NoNetwork
    /\ manager = NoNetwork
    /\ json = NoJSON
    /\ loaded = NoNetwork
    /\ Idle

\* buildPragueNetwork once more, the fetch answering with the same elements:
\* Math.random() returns what it will, whatever it returned in the build
\* before
Rebuild ==
    /\ clock < MaxRebuilds
    /\ \E rnd \in [1..RandomPeriod -> RandomValues] :
           \E result \in {processOSMData(elements, rnd, clock)} :
               /\ network' = result.network
               /\ networkRef' = NewObject({networkRef, managerRef})
               /\ manager' = Seen(managerRef, manager, networkRef', result.network)
               /\ randomSource' = Rotate(rnd, result.calls)
    /\ clock' = clock + 1
    /\ UNCHANGED <<clientVars, elements, json, loaded, managerRef, fetchVars, answer>>

RebuildNext == Rebuild \/ NewManager

Rebuilds == RebuildInit /\ [][RebuildNext]_vars

----------------------------------------------------------------------------
(* ClientRoadNetwork: one manager, loaded once, and queries that answer     *)
(* before it is there                                                       *)

\* what the awaited fetch can come to when it fails
Failures == {Rejected, Unreadable} \cup {Status(code) : code \in FailureStatuses}

\* the error buildPragueNetwork throws on to loadPragueNetwork
ThrownOn(failure) ==
    CASE failure = Rejected -> RejectionError
      [] failure = Unreadable -> SyntaxError
      [] OTHER -> ApiError(failure.status)

\* error instanceof Error ? error.message : 'Unknown error'
Message(thrown) == [text |-> thrown.message]

\* what the calls of a client keep besides its own fields and its manager
keptByClient == <<elements, clock, randomSource, network, json, loaded, networkRef>>

\* LoadPragueNetwork without if (this.loading || this.manager) return
LoadPragueNetwork_Unguarded ==
    /\ requests < MaxRequests
    /\ loading' = TRUE
    /\ loadError' = Null
    /\ response' = Awaited
    /\ requests' = requests + 1
    /\ elapsed' = 0
    /\ error' = NoError
    /\ answer' = [op |-> "loadPragueNetwork", started |-> TRUE]
    /\ UNCHANGED <<keptByClient, manager, managerRef>>

\* loadPragueNetwork() with no load in progress and no manager: up to the
\* await, which is where the fetch has been issued
LoadPragueNetwork ==
    /\ ~loading
    /\ manager = NoNetwork
    /\ requests < MaxRequests
    /\ loading' = TRUE
    /\ loadError' = Null
    /\ response' = Awaited
    /\ requests' = requests + 1
    /\ elapsed' = 0
    /\ error' = NoError
    /\ answer' = [op |-> "loadPragueNetwork", started |-> TRUE]
    /\ UNCHANGED <<keptByClient, manager, managerRef>>

\* loadPragueNetwork() while loading or with a manager: return
LoadPragueNetworkAgain ==
    /\ loading \/ manager # NoNetwork
    /\ answer' = [op |-> "loadPragueNetwork", started |-> FALSE]
    /\ UNCHANGED <<keptByClient, manager, managerRef, fetchVars, clientVars>>

\* the fetch answers 200 with elements: the network is built and wrapped in
\* a new manager, whose getMetadata().stats is logged; finally
LoadSucceeds ==
    /\ loading
    /\ response = Awaited
    /\ \E els \in ServiceInputs :
           /\ elements' = els
           /\ \E result \in {processOSMData(els, randomSource, clock)} :
                  /\ network' = result.network
                  /\ manager' = result.network
                  /\ randomSource' = Rotate(randomSource, result.calls)
    /\ networkRef' = NewObject({networkRef, managerRef})
    /\ managerRef' = networkRef'
    /\ clock' = clock + 1
    /\ response' = Status(200)
    /\ loading' = FALSE
    /\ UNCHANGED <<json, loaded, requests, elapsed, error, answer, loadError>>

\* LoadFails without finally
LoadFails_LoadingKept ==
    /\ loading
    /\ response = Awaited
    /\ \E failure \in Failures :
           /\ response' = failure
           /\ error' = ThrownOn(failure)
           /\ loadError' = Message(ThrownOn(failure))
    /\ UNCHANGED <<keptByClient, manager, managerRef, requests, elapsed, answer, loading>>

\* the fetch fails: catch records the message; finally
LoadFails ==
    /\ loading
    /\ response = Awaited
    /\ \E failure \in Failures :
           /\ response' = failure
           /\ error' = ThrownOn(failure)
           /\ loadError' = Message(ThrownOn(failure))
    /\ loading' = FALSE
    /\ UNCHANGED <<keptByClient, manager, managerRef, requests, elapsed, answer>>

\* the points mapLayer.worldToLonLat hands back for the positions asked about
ClientPoints == IF manager = NoNetwork THEN {HubPoint, FarPoint} ELSE QueryPoints

ClientPairs ==
    IF manager = NoNetwork
    THEN {<<"way_1_fwd_0", "way_2_fwd_0">>, <<"lane_unknown", "lane_unknown">>}
    ELSE MovementPairs

\* findNearestLane(worldX, worldY, mapLayer), gps being what
\* mapLayer.worldToLonLat(worldX, worldY) returned
ClientFindNearestLane ==
    /\ \E gps \in ClientPoints :
           answer' = [op |-> "client.findNearestLane", worldPos |-> gps,
                      result |-> IF manager = NoNetwork THEN Null
                                 ELSE findNearestLane(manager, gps, DefaultMaxDistance)]
    /\ UNCHANGED <<keptByClient, manager, managerRef, fetchVars, clientVars>>

ClientIsMovementAllowed ==
    /\ \E pair \in ClientPairs :
           answer' = [op |-> "client.isMovementAllowed",
                      fromLaneId |-> pair[1], toLaneId |-> pair[2],
                      result |-> IF manager = NoNetwork THEN FALSE
                                 ELSE ManagerIsMovementAllowed(manager, pair[1], pair[2])]
    /\ UNCHANGED <<keptByClient, manager, managerRef, fetchVars, clientVars>>

GetAllLanes ==
    /\ answer' = [op |-> "client.getAllLanes",
                  result |-> IF manager = NoNetwork THEN <<>> ELSE manager.lanes]
    /\ UNCHANGED <<keptByClient, manager, managerRef, fetchVars, clientVars>>

GetAllIntersections ==
    /\ answer' = [op |-> "client.getAllIntersections",
                  result |-> IF manager = NoNetwork THEN <<>> ELSE manager.intersections]
    /\ UNCHANGED <<keptByClient, manager, managerRef, fetchVars, clientVars>>

GetLoadingState ==
    /\ answer' = [op |-> "client.getLoadingState",
                  result |-> [isLoading |-> loading,
                              isLoaded |-> manager # NoNetwork,
                              error |-> loadError]]
    /\ UNCHANGED <<keptByClient, manager, managerRef, fetchVars, clientVars>>

ClientNext ==
    \/ LoadPragueNetwork \/ LoadPragueNetworkAgain \/ LoadSucceeds \/ LoadFails
    \/ ClientFindNearestLane \/ ClientIsMovementAllowed \/ GetAllLanes
    \/ GetAllIntersections \/ GetLoadingState

ClientSpec == ServiceInit /\ [][ClientNext]_vars

----------------------------------------------------------------------------
(* What the answer of the service says, read off the elements themselves.   *)

RoadWayElements == SelectSeq(elements, LAMBDA el : el.type = "way" /\ isCarWay(el))

\* the node id has a node element in the answer
Resolvable(id) == \E i \in 1..Len(elements) : elements[i].type = "node" /\ elements[i].id = id

ResolvableCount(way) == Cardinality({j \in 1..Len(way.nodes) : Resolvable(way.nodes[j])})

ReferencedNodeIds ==
    UNION {{RoadWayElements[i].nodes[j] : j \in 1..Len(RoadWayElements[i].nodes)} :
              i \in 1..Len(RoadWayElements)}

\* the road ways, as positions in RoadWayElements, whose node list holds the id
WaysThrough(id) ==
    {i \in 1..Len(RoadWayElements) :
        \E j \in 1..Len(RoadWayElements[i].nodes) : RoadWayElements[i].nodes[j] = id}

\* the lane was built from the way: its id is way_<id>_fwd_<k> or way_<id>_bwd_<k>
LaneOfWay(net, lane, way) ==
    \E k \in 0..Len(net.lanes) :
        \/ lane.id = "way_" \o ToString(way.id) \o "_fwd_" \o ToString(k)
        \/ lane.id = "way_" \o ToString(way.id) \o "_bwd_" \o ToString(k)

WayLanes(net, way) == SelectSeq(net.lanes, LAMBDA lane : LaneOfWay(net, lane, way))

LaneById(net, id) == net.lanes[CHOOSE i \in 1..Len(net.lanes) : net.lanes[i].id = id]

ConnectorById(net, id) ==
    net.laneConnectors[CHOOSE i \in 1..Len(net.laneConnectors) : net.laneConnectors[i].id = id]

IntersectionAt(net, nodeId) ==
    {i \in 1..Len(net.intersections) :
        net.intersections[i].id = "intersection_" \o ToString(nodeId)}

HasIncomingLane(net, nodeId) ==
    \E i \in 1..Len(net.lanes) : net.lanes[i].toNode = "node_" \o ToString(nodeId)

HasOutgoingLane(net, nodeId) ==
    \E i \in 1..Len(net.lanes) : net.lanes[i].fromNode = "node_" \o ToString(nodeId)

Built == network # NoNetwork

----------------------------------------------------------------------------
(* C1 *)

\* C1: the manager rebuilt from the text toJSON gave wraps a snapshot equal,
\* field for field, to the snapshot of the manager that gave the text: lanes,
\* laneConnectors, intersections, pedNodes, pedEdges, crosswalks, crossLinks,
\* bounds, version, generatedAt and source.
C1_RoundTrip ==
    loaded # NoNetwork =>
        /\ loaded.lanes = manager.lanes
        /\ loaded.laneConnectors = manager.laneConnectors
        /\ loaded.intersections = manager.intersections
        /\ loaded.pedNodes = manager.pedNodes
        /\ loaded.pedEdges = manager.pedEdges
        /\ loaded.crosswalks = manager.crosswalks
        /\ loaded.crossLinks = manager.crossLinks
        /\ loaded.bounds = manager.bounds
        /\ loaded.version = manager.version
        /\ loaded.generatedAt = manager.generatedAt
        /\ loaded.source = manager.source

----------------------------------------------------------------------------
(* C2 *)

\* C2: in a built snapshot a node that exactly 2 road ways reference is no
\* intersection, and a node that 3 or more distinct road ways reference and
\* that has an incoming lane (toNode) and an outgoing lane (fromNode) is one.
C2_IntersectionByWayCount ==
    Built =>
        \A id \in ReferencedNodeIds :
            /\ Cardinality(WaysThrough(id)) = 2 => IntersectionAt(network, id) = {}
            /\ (/\ Cardinality(WaysThrough(id)) >= 3
                /\ HasIncomingLane(network, id)
                /\ HasOutgoingLane(network, id)) => IntersectionAt(network, id) # {}

----------------------------------------------------------------------------
(* C3 *)

\* the node elements tagged highway=stop
StopNodeIds ==
    {elements[i].id : i \in {j \in 1..Len(elements) :
        elements[j].type = "node" /\ Tag(elements[j].tags, "highway") = "stop"}}

\* the way is a stop-tagged arm of the node: it reaches the node and carries a
\* stop-tagged node other than the node itself
StopArm(way, nodeId) ==
    \E j \in 1..Len(way.nodes) : way.nodes[j] # nodeId /\ way.nodes[j] \in StopNodeIds

\* the intersection node has three arms, one of them stop-tagged, and no
\* traffic control of its own
ThreeWayWithOneStopArm(nodeId) ==
    /\ Cardinality(WaysThrough(nodeId)) = 3
    /\ Cardinality({i \in WaysThrough(nodeId) : StopArm(RoadWayElements[i], nodeId)}) = 1
    /\ \E i \in 1..Len(elements) :
          /\ elements[i].type = "node" /\ elements[i].id = nodeId
          /\ elements[i].tags = NoTags

\* the connectors of the intersection whose source lane was built from a
\* stop-tagged arm
StopArmConnectors(net, x, nodeId) ==
    {c \in {x.connectors[k] : k \in 1..Len(x.connectors)} :
        \E i \in WaysThrough(nodeId) :
            /\ StopArm(RoadWayElements[i], nodeId)
            /\ LaneOfWay(net, LaneById(net, ConnectorById(net, c).fromLane),
                         RoadWayElements[i])}

\* C3: at a 3-way intersection with one stop-tagged arm and two uncontrolled
\* arms, every connector whose source lane comes from the stop arm appears in
\* at least one right-of-way rule whose outcome is "yield".
C3_StopArmYields ==
    Built =>
        \A id \in ReferencedNodeIds :
            ThreeWayWithOneStopArm(id) =>
                \A n \in IntersectionAt(network, id) :
                    LET x == network.intersections[n]
                    IN  \A c \in StopArmConnectors(network, x, id) :
                            \E r \in 1..Len(x.rules) :
                                /\ x.rules[r].hasPriority = "yield"
                                /\ c \in {x.rules[r].connectorA, x.rules[r].connectorB}

----------------------------------------------------------------------------
(* C4 *)

\* C4: every intersection whose control type is "signals" has an empty list
\* of right-of-way rules, whatever number of connectors it has.
C4_SignalsHaveNoRules ==
    Built =>
        \A n \in 1..Len(network.intersections) :
            network.intersections[n].control = "signals"
                => network.intersections[n].rules = <<>>

\* a signals intersection with several connectors, conflicting pairs among them
C4_Witness ==
    /\ Built
    /\ \E n \in 1..Len(network.intersections) :
          /\ network.intersections[n].control = "signals"
          /\ Len(network.intersections[n].connectors) >= 2
          /\ network.intersections[n].rules = <<>>

----------------------------------------------------------------------------
(* C5 *)

\* C5: every lane of a built snapshot has a centerline of at least 2 points,
\* a width above 0 and a speed limit above 0, whatever the lanes,
\* lanes:forward, lanes:backward, width and maxspeed tags of its way.
C5_LaneInvariant ==
    Built =>
        \A i \in 1..Len(network.lanes) :
            /\ Len(network.lanes[i].poly) >= 2
            /\ JsGt(network.lanes[i].width, 0)
            /\ JsGt(network.lanes[i].maxSpeed, 0)

----------------------------------------------------------------------------
(* C6 *)

\* the way references a node id that no node element of the answer carries
HasAbsentNode(way) == \E j \in 1..Len(way.nodes) : ~Resolvable(way.nodes[j])

\* the centerline of the way has fewer than 2 points
Collapsed(way) == ResolvableCount(way) < 2

\* the snapshot holds, for the way, the lanes the lane builder gives for it
\* when it is built on its own
LanesKept(net, way) ==
    WayLanes(net, way) = buildLanesFromWay(way, extractNodesMap(elements), extractLaneInfo(way))

\* C6 as stated: a way that references an absent node id, or whose
\* centerline collapses to fewer than 2 points, produces no lanes, and the
\* build completes with the lanes of every other way.
C6_AbsentNodeOrCollapsedGivesNoLanes ==
    Built =>
        \A i \in 1..Len(RoadWayElements) :
            (HasAbsentNode(RoadWayElements[i]) \/ Collapsed(RoadWayElements[i])) =>
                /\ WayLanes(network, RoadWayElements[i]) = <<>>
                /\ \A k \in 1..Len(RoadWayElements) :
                      k # i => LanesKept(network, RoadWayElements[k])

\* C6, amended: a way whose centerline collapses to fewer than 2 resolvable
\* points produces no lanes and the build completes with the lanes of every
\* other way; a way that references an absent node id and keeps 2 or more
\* resolvable points still produces its lanes, over the resolvable points.
C6_CollapsedGivesNoLanes ==
    Built =>
        \A i \in 1..Len(RoadWayElements) :
            /\ Collapsed(RoadWayElements[i]) =>
                  /\ WayLanes(network, RoadWayElements[i]) = <<>>
                  /\ \A k \in 1..Len(RoadWayElements) :
                        k # i => LanesKept(network, RoadWayElements[k])
            /\ (HasAbsentNode(RoadWayElements[i]) /\ ~Collapsed(RoadWayElements[i])) =>
                  /\ WayLanes(network, RoadWayElements[i]) # <<>>
                  /\ \A k \in 1..Len(WayLanes(network, RoadWayElements[i])) :
                        Len(WayLanes(network, RoadWayElements[i])[k].poly)
                            = ResolvableCount(RoadWayElements[i])

\* a built snapshot of an answer with a collapsed road way next to road ways
\* whose lanes are there
C6_Witness ==
    /\ Built
    /\ \E i \in 1..Len(RoadWayElements) :
          /\ Collapsed(RoadWayElements[i])
          /\ WayLanes(network, RoadWayElements[i]) = <<>>
          /\ \E k \in 1..Len(RoadWayElements) :
                k # i /\ WayLanes(network, RoadWayElements[k]) # <<>>

----------------------------------------------------------------------------
(* C7 *)

\* lanes=2, no oneway tag, no lanes:forward / lanes:backward, and a
\* centerline of at least 2 resolvable points
TwoLaneTwoWay(way) ==
    /\ TagText(way.tags, "lanes") = <<"2">>
    /\ ~HasTag(way.tags, "oneway")
    /\ ~HasTag(way.tags, "lanes:forward")
    /\ ~HasTag(way.tags, "lanes:backward")
    /\ ~Collapsed(way)

LanesInDirection(net, way, dir) ==
    Len(SelectSeq(WayLanes(net, way), LAMBDA lane : lane.dir = dir))

\* C7: a way with lanes=2, no oneway tag and no lanes:forward /
\* lanes:backward split, whose centerline has at least 2 resolvable points,
\* gets exactly 1 forward lane and exactly 1 backward lane.
C7_TwoLanesSplitEvenly ==
    Built =>
        \A i \in 1..Len(RoadWayElements) :
            TwoLaneTwoWay(RoadWayElements[i]) =>
                /\ LanesInDirection(network, RoadWayElements[i], 1) = 1
                /\ LanesInDirection(network, RoadWayElements[i], -1) = 1

\* a built snapshot of an answer with such a way, its two lanes there
C7_Witness ==
    /\ Built
    /\ \E i \in 1..Len(RoadWayElements) :
          /\ TwoLaneTwoWay(RoadWayElements[i])
          /\ Len(WayLanes(network, RoadWayElements[i])) = 2

----------------------------------------------------------------------------
(* C8 *)

\* C8: the centerline of every built lane, forward or backward, has as many
\* points as the node list of its way has resolvable nodes.
C8_PointCountKept ==
    Built =>
        \A i \in 1..Len(RoadWayElements) :
            \A k \in 1..Len(WayLanes(network, RoadWayElements[i])) :
                Len(WayLanes(network, RoadWayElements[i])[k].poly)
                    = ResolvableCount(RoadWayElements[i])

\* a forward and a backward lane of several points, built from a way one of
\* whose nodes is not resolvable
C8_Witness ==
    /\ Built
    /\ \E i \in 1..Len(RoadWayElements) :
          LET lanes == WayLanes(network, RoadWayElements[i])
          IN  /\ HasAbsentNode(RoadWayElements[i])
              /\ \E k \in 1..Len(lanes) : lanes[k].dir = 1 /\ Len(lanes[k].poly) >= 2
              /\ \E k \in 1..Len(lanes) : lanes[k].dir = -1 /\ Len(lanes[k].poly) >= 2

----------------------------------------------------------------------------
(* C9, C10 *)

\* the direction, in whole degrees, of the segment from point p to point q
Heading(p, q) == Atan2(JsSub(q[2], p[2]), JsSub(q[1], p[1]))

\* the direction of the last segment of the lane
FinalHeading(lane) == Heading(lane.poly[Len(lane.poly) - 1], lane.poly[Len(lane.poly)])

\* the direction of the first segment of the lane
FirstHeading(lane) == Heading(lane.poly[1], lane.poly[2])

\* the angle d of -360..360 brought to -180..180
Normalized(d) == IF d > 180 THEN d - 360 ELSE IF d < -180 THEN d + 360 ELSE d

\* the signed angle from the incoming lane's final heading to the outgoing
\* lane's first heading, left positive; NaN when a heading is
SignedTurn(inLane, outLane) ==
    IF Len(inLane.poly) < 2 \/ Len(outLane.poly) < 2 THEN NaN
    ELSE IF IsNaN(FinalHeading(inLane)) \/ IsNaN(FirstHeading(outLane)) THEN NaN
    ELSE Normalized(FirstHeading(outLane) - FinalHeading(inLane))

\* the band of a turn hint
InBand(hint, angle) ==
    CASE hint = "left" -> angle > 30
      [] hint = "slight_left" -> angle > 15 /\ angle <= 30
      [] hint = "through" -> angle >= -15 /\ angle <= 15
      [] hint = "slight_right" -> angle >= -30 /\ angle < -15
      [] hint = "right" -> angle < -30

ConnectorTurn(net, c) == SignedTurn(LaneById(net, c.fromLane), LaneById(net, c.toLane))

\* C9: a connector is allowed exactly when its incoming lane has no turn hint
\* or the signed turn angle lies in the band of the hint (left > +30,
\* slight_left in (+15,+30], through within +-15, slight_right in [-30,-15),
\* right < -30); a through lane turning by exactly 10 degrees is allowed, by
\* exactly 40 degrees disallowed.
C9_AllowedIffInBand ==
    Built =>
        \A i \in 1..Len(network.laneConnectors) :
            LET c == network.laneConnectors[i]
                hint == LaneById(network, c.fromLane).turnHint
                angle == ConnectorTurn(network, c)
            IN  /\ c.allowed <=> (hint = Undefined \/ InBand(hint, angle))
                /\ (hint = "through" /\ Abs(angle) = 10) => c.allowed
                /\ (hint = "through" /\ Abs(angle) = 40) => ~c.allowed

\* one through lane with a connector turning by 10 degrees, allowed, and a
\* connector turning by 40 degrees, disallowed
C9_Witness ==
    /\ Built
    /\ \E i, k \in 1..Len(network.laneConnectors) :
          LET c == network.laneConnectors[i]
              d == network.laneConnectors[k]
          IN  /\ c.fromLane = d.fromLane
              /\ LaneById(network, c.fromLane).turnHint = "through"
              /\ Abs(ConnectorTurn(network, c)) = 10 /\ c.allowed
              /\ Abs(ConnectorTurn(network, d)) = 40 /\ ~d.allowed

\* the pair of lanes has a connector
Connected(net, inId, outId) ==
    \E i \in 1..Len(net.laneConnectors) :
        net.laneConnectors[i].fromLane = inId /\ net.laneConnectors[i].toLane = outId

\* the outgoing lane's first heading differs from the incoming lane's final
\* heading by no more than 135 degrees
WithinTurnLimit(inLane, outLane) ==
    /\ ~IsNaN(SignedTurn(inLane, outLane))
    /\ Abs(SignedTurn(inLane, outLane)) <= 135

\* C10: for every pair of an incoming and an outgoing lane of an
\* intersection, a connector exists if and only if the difference between the
\* outgoing lane's first-segment heading and the incoming lane's
\* final-segment heading, normalized to -180..180, is at most 135 in absolute
\* value.
C10_ConnectorIffFeasible ==
    Built =>
        \A n \in 1..Len(network.intersections) :
            \A a \in 1..Len(network.intersections[n].incoming) :
                \A b \in 1..Len(network.intersections[n].outgoing) :
                    LET inId == network.intersections[n].incoming[a]
                        outId == network.intersections[n].outgoing[b]
                    IN  Connected(network, inId, outId)
                            <=> WithinTurnLimit(LaneById(network, inId), LaneById(network, outId))

\* an intersection with a connector over a turn of exactly 135 degrees and a
\* pair of lanes, turning by more, without one
C10_Witness ==
    /\ Built
    /\ \E n \in 1..Len(network.intersections) :
          LET x == network.intersections[n]
          IN  /\ \E a \in 1..Len(x.incoming), b \in 1..Len(x.outgoing) :
                    /\ Abs(SignedTurn(LaneById(network, x.incoming[a]),
                                      LaneById(network, x.outgoing[b]))) = 135
                    /\ Connected(network, x.incoming[a], x.outgoing[b])
              /\ \E a \in 1..Len(x.incoming), b \in 1..Len(x.outgoing) :
                    /\ Abs(SignedTurn(LaneById(network, x.incoming[a]),
                                      LaneById(network, x.outgoing[b]))) > 135
                    /\ ~Connected(network, x.incoming[a], x.outgoing[b])

----------------------------------------------------------------------------
(* parseMaxSpeed: speeds in units of 1/100000 m/s *)

Parsed == answer.op = "parseMaxSpeed" /\ answer.returned

Within(a, b, tolerance) == a - b <= tolerance /\ b - a <= tolerance

----------------------------------------------------------------------------
(* The queries of the manager, read off the call last made and the snapshot *)
(* the manager wraps                                                        *)

Asked(op) == manager # NoNetwork /\ answer.op = op

\* point is one of the points of the lane's centerline
OnCenterline(lane, point) == \E k \in 1..Len(lane.poly) : lane.poly[k] = point

\* the distance from the point asked about to the i-th lane of the snapshot
LaneDistance(i) == distanceToPolyline(answer.worldPos, manager.lanes[i].poly)

\* C12 as stated: findNearestLane, asked with the default maxDistance about
\* a point on the centerline of a lane of the snapshot, returns that lane
C12_OnCenterlineReturnsThatLane ==
    (Asked("findNearestLane") /\ answer.maxDistance = DefaultMaxDistance) =>
        \A i \in 1..Len(manager.lanes) :
            OnCenterline(manager.lanes[i], answer.worldPos) => answer.result = manager.lanes[i]

\* C12: findNearestLane, asked with a positive maxDistance about a point on
\* the centerline of a lane of the snapshot, returns a lane at distance 0:
\* that lane, or the first lane before it in the snapshot that passes through
\* the point as well; asked with maxDistance 0 it returns none
C12_OnCenterlineReturnsFirstLaneThrough ==
    Asked("findNearestLane") =>
        \A i \in 1..Len(manager.lanes) :
            OnCenterline(manager.lanes[i], answer.worldPos) =>
                IF answer.maxDistance > 0
                THEN \E j \in 1..i :
                        /\ answer.result = manager.lanes[j]
                        /\ LaneDistance(j) = 0
                        /\ \A k \in 1..(j - 1) : LaneDistance(k) # 0
                ELSE answer.result = Null

\* the point asked about is on two lanes, and the first of them is returned
C12_Witness ==
    /\ Asked("findNearestLane")
    /\ answer.maxDistance = DefaultMaxDistance
    /\ \E i \in 1..Len(manager.lanes) : \E j \in 1..(i - 1) :
           /\ OnCenterline(manager.lanes[i], answer.worldPos)
           /\ OnCenterline(manager.lanes[j], answer.worldPos)
           /\ answer.result = manager.lanes[j]

\* C13: findNearestLane(p, maxDistance) returns none when no lane is nearer
\* to p than maxDistance; otherwise it returns a lane no lane is nearer than,
\* the first such lane of the snapshot
C13_NearestWithinThreshold ==
    Asked("findNearestLane") =>
        IF \E i \in 1..Len(manager.lanes) : JsLt(LaneDistance(i), answer.maxDistance)
        THEN \E i \in 1..Len(manager.lanes) :
                /\ answer.result = manager.lanes[i]
                /\ JsLt(LaneDistance(i), answer.maxDistance)
                /\ \A j \in 1..Len(manager.lanes) : ~JsLt(LaneDistance(j), LaneDistance(i))
                /\ \A j \in 1..(i - 1) : LaneDistance(j) # LaneDistance(i)
        ELSE answer.result = Null

\* a lane other than the first is the nearest, with a lane farther than
\* maxDistance left out
C13_Witness ==
    /\ Asked("findNearestLane")
    /\ answer.maxDistance = NearMaxDistance
    /\ answer.result # Null
    /\ answer.result # manager.lanes[1]
    /\ \E j \in 1..Len(manager.lanes) :
           LaneDistance(j) < Infinity /\ JsGt(LaneDistance(j), answer.maxDistance)

\* the connectors of the snapshot from the one lane to the other
ConnectorsBetween(from, to) ==
    {i \in 1..Len(manager.laneConnectors) :
        manager.laneConnectors[i].fromLane = from /\ manager.laneConnectors[i].toLane = to}

\* C14: isMovementAllowed(from, to) returns the allowed flag of the one
\* connector from lane 'from' to lane 'to', and FALSE when the snapshot has
\* no such connector
C14_AllowedFlagOfConnector ==
    Asked("isMovementAllowed") =>
        IF ConnectorsBetween(answer.fromLaneId, answer.toLaneId) = {}
        THEN answer.result = FALSE
        ELSE /\ Cardinality(ConnectorsBetween(answer.fromLaneId, answer.toLaneId)) = 1
             /\ \A i \in ConnectorsBetween(answer.fromLaneId, answer.toLaneId) :
                    answer.result = manager.laneConnectors[i].allowed

\* the snapshot has a connector between the lanes asked about, and it is not
\* allowed
C14_Witness ==
    /\ Asked("isMovementAllowed")
    /\ answer.result = FALSE
    /\ ConnectorsBetween(answer.fromLaneId, answer.toLaneId) # {}

\* the rules of all intersections of the snapshot
AllRules ==
    UNION {{manager.intersections[i].rules[k] : k \in 1..Len(manager.intersections[i].rules)} :
              i \in 1..Len(manager.intersections)}

Contains(array, x) == \E i \in 1..Len(array) : array[i] = x

\* C15: for every rule pairing connectors A and B, getConflictingMovements(A)
\* contains B and getConflictingMovements(B) contains A
C15_RulesSurfaceBothSides ==
    Asked("getConflictingMovements") =>
        \A rule \in AllRules :
            /\ rule.connectorA = answer.connectorId => Contains(answer.result, rule.connectorB)
            /\ rule.connectorB = answer.connectorId => Contains(answer.result, rule.connectorA)

\* the connector asked about is the B side of a rule and the A side of none
C15_Witness ==
    /\ Asked("getConflictingMovements")
    /\ answer.result # <<>>
    /\ \E rule \in AllRules : rule.connectorB = answer.connectorId
    /\ \A rule \in AllRules : rule.connectorA # answer.connectorId

----------------------------------------------------------------------------
(* Build attempts and loads that fail                                       *)

\* the fetch awaited in this step fails: it rejects, or answers a status
\* that is not ok
FetchFails ==
    /\ response = Awaited
    /\ response' = Rejected \/ (response'.kind = "status" /\ ~response'.ok)

\* the error the failing fetch hands to buildPragueNetwork
FetchError(failed) == IF failed = Rejected THEN RejectionError ELSE ApiError(failed.status)

\* C16: a build attempt whose fetch rejects or answers a status that is not
\* ok ends with that error at the caller; no further request is issued, and
\* the snapshot, the manager and what was loaded stay as they were
C16_FetchFailureSurfaced ==
    [][FetchFails =>
          /\ error' = FetchError(response')
          /\ requests' = requests
          /\ network' = network /\ networkRef' = networkRef
          /\ manager' = manager /\ managerRef' = managerRef
          /\ loaded' = loaded /\ json' = json]_vars

\* the second attempt has failed, and the snapshot of the first is the one
\* the manager wraps
C16_Witness ==
    /\ response.kind = "status"
    /\ ~response.ok
    /\ error = ApiError(response.status)
    /\ requests = MaxRequests
    /\ network # NoNetwork
    /\ manager = network

\* C17 as stated: no build attempt is still waiting for its response once
\* more than the 30 seconds of its deadline have passed
C17_NoAttemptWaitsPastDeadline == ~(response = Awaited /\ elapsed > Deadline)

\* the fields of a RoadNetwork
SnapshotFields ==
    {"lanes", "laneConnectors", "intersections", "pedNodes", "pedEdges", "crosswalks",
     "crossLinks", "bounds", "version", "generatedAt", "source"}

\* C18 as stated: what fromJSON hands back wraps a whole network, never a
\* part of one
C18_NoPartialNetworkLoaded == loaded # NoNetwork => SnapshotFields \subseteq DOMAIN loaded

----------------------------------------------------------------------------
(* The snapshot a manager wraps                                             *)

\* this step is a query of the manager: it hands back a return value or a
\* text
IsQuery ==
    \/ answer' # answer /\ answer' # NoAnswer
    \/ json' # json /\ json' # NoJSON

\* C19: a query of the manager (findNearestLane, getIntersectionConnectors,
\* isMovementAllowed, getConflictingMovements, toJSON, getBounds,
\* getMetadata) leaves the snapshot the manager wraps, and the snapshot last
\* built, as they were
C19_QueriesLeaveSnapshot ==
    [][IsQuery =>
          /\ manager' = manager /\ managerRef' = managerRef
          /\ network' = network /\ networkRef' = networkRef]_vars

\* the manager has answered a query and written its text, and wraps the
\* snapshot it was made with
C19_Witness ==
    /\ manager # NoNetwork
    /\ answer # NoAnswer
    /\ json = toJSON(manager)
    /\ managerRef = networkRef
    /\ manager = network

\* this step is a build that returns a snapshot
IsBuild == clock' = clock + 1

\* C20: a build that returns leaves the snapshot a manager wraps as it was,
\* and the snapshot it returns is an object other than the one the manager
\* wraps and other than the one built before it
C20_RebuildLeavesHeldSnapshot ==
    [][IsBuild =>
          /\ manager' = manager /\ managerRef' = managerRef
          /\ networkRef' # managerRef
          /\ networkRef' # networkRef]_vars

\* a manager wraps the first snapshot, and a second, different snapshot has
\* been built since
C20_Witness ==
    /\ manager # NoNetwork
    /\ clock = 2
    /\ managerRef # networkRef
    /\ manager # network

----------------------------------------------------------------------------
(* The references of a built snapshot                                       *)

\* the keys of the snapshot's laneConnectors mapping
ConnectorKeys(net) == {net.laneConnectors[i].id : i \in 1..Len(net.laneConnectors)}

\* C21: in a built snapshot every connector id an intersection lists, and
\* every connector id one of its rules names, is a key of laneConnectors
C21_ConnectorIdsResolve ==
    Built =>
        \A n \in 1..Len(network.intersections) :
            /\ \A k \in 1..Len(network.intersections[n].connectors) :
                   network.intersections[n].connectors[k] \in ConnectorKeys(network)
            /\ \A r \in 1..Len(network.intersections[n].rules) :
                   /\ network.intersections[n].rules[r].connectorA \in ConnectorKeys(network)
                   /\ network.intersections[n].rules[r].connectorB \in ConnectorKeys(network)

\* an intersection that lists several connectors and has rules over them
C21_Witness ==
    /\ Built
    /\ \E n \in 1..Len(network.intersections) :
          /\ Len(network.intersections[n].connectors) >= 2
          /\ network.intersections[n].rules # <<>>

\* the intersections, as positions, that list the connector id
ListedBy(net, connectorId) ==
    {n \in 1..Len(net.intersections) :
        \E k \in 1..Len(net.intersections[n].connectors) :
            net.intersections[n].connectors[k] = connectorId}

\* the lanes of the connector meet at the node, and the intersection is the
\* one of that node
MeetsAt(net, connector, x, nodeId) ==
    /\ LaneById(net, connector.fromLane).toNode = "node_" \o ToString(nodeId)
    /\ LaneById(net, connector.toLane).fromNode = "node_" \o ToString(nodeId)
    /\ x.id = "intersection_" \o ToString(nodeId)

\* C22: for every connector of a built snapshot, the toNode of its source
\* lane and the fromNode of its destination lane are one node, and every
\* intersection that lists the connector (there is one) is that node's
C22_ConnectorLanesMeetAtNode ==
    Built =>
        \A i \in 1..Len(network.laneConnectors) :
            /\ ListedBy(network, network.laneConnectors[i].id) # {}
            /\ \A n \in ListedBy(network, network.laneConnectors[i].id) :
                   \E nodeId \in ReferencedNodeIds :
                       MeetsAt(network, network.laneConnectors[i], network.intersections[n], nodeId)

\* a snapshot with connectors from lanes of one way to lanes of another
C22_Witness ==
    /\ Built
    /\ \E i \in 1..Len(network.laneConnectors) :
          /\ ListedBy(network, network.laneConnectors[i].id) # {}
          /\ LaneById(network, network.laneConnectors[i].fromLane).fromNode
                 # LaneById(network, network.laneConnectors[i].toLane).toNode

----------------------------------------------------------------------------
(* Right-of-way rules                                                       *)

\* the unordered pairs of connectors the intersection lists that differ in
\* source lane or in destination lane, as sets of two connector ids
ConflictingPairs(net, x) ==
    {{x.connectors[i], x.connectors[j]} : <<i, j>> \in
        {p \in (1..Len(x.connectors)) \X (1..Len(x.connectors)) :
            /\ p[1] < p[2]
            /\ \/ ConnectorById(net, x.connectors[p[1]]).fromLane
                      # ConnectorById(net, x.connectors[p[2]]).fromLane
               \/ ConnectorById(net, x.connectors[p[1]]).toLane
                      # ConnectorById(net, x.connectors[p[2]]).toLane}}

\* the rules of the intersection, as positions, over the pair of connectors
RulesOver(x, pair) ==
    {r \in 1..Len(x.rules) : {x.rules[r].connectorA, x.rules[r].connectorB} = pair}

\* C24: at an intersection whose control is not "signals" the rules hold
\* exactly one rule for each unordered pair of connectors that differ in
\* source lane or in destination lane, and no rule over any other pair
C24_OneRulePerConflictingPair ==
    Built =>
        \A n \in 1..Len(network.intersections) :
            network.intersections[n].control # "signals" =>
                /\ \A pair \in ConflictingPairs(network, network.intersections[n]) :
                       Cardinality(RulesOver(network.intersections[n], pair)) = 1
                /\ \A r \in 1..Len(network.intersections[n].rules) :
                       {network.intersections[n].rules[r].connectorA,
                        network.intersections[n].rules[r].connectorB}
                           \in ConflictingPairs(network, network.intersections[n])

\* an intersection without signals where two connectors share their source
\* lane and two others share their destination lane
C24_Witness ==
    /\ Built
    /\ \E n \in 1..Len(network.intersections) :
          /\ network.intersections[n].control # "signals"
          /\ \E a, b, c, d \in {ConnectorById(network, network.intersections[n].connectors[k]) :
                                  k \in 1..Len(network.intersections[n].connectors)} :
                 /\ a.fromLane = b.fromLane /\ a.toLane # b.toLane
                 /\ c.toLane = d.toLane /\ c.fromLane # d.fromLane

\* C25: at an intersection whose control is "stop" or "give_way" every rule
\* has the outcome "yield"
C25_StopAndGiveWayYield ==
    Built =>
        \A n \in 1..Len(network.intersections) :
            network.intersections[n].control \in {"stop", "give_way"} =>
                \A r \in 1..Len(network.intersections[n].rules) :
                    network.intersections[n].rules[r].hasPriority = "yield"

\* a give_way intersection that has rules
C25_Witness ==
    /\ Built
    /\ \E n \in 1..Len(network.intersections) :
          /\ network.intersections[n].control = "give_way"
          /\ Len(network.intersections[n].rules) >= 2

\* lane a reaches the node from the right-hand side of lane b: seen along
\* the final heading of b, the final heading of a points to the left
FromRight(a, b) ==
    /\ Len(a.poly) >= 2 /\ Len(b.poly) >= 2
    /\ ~IsNaN(FinalHeading(a)) /\ ~IsNaN(FinalHeading(b))
    /\ Normalized(FinalHeading(a) - FinalHeading(b)) > 0
    /\ Normalized(FinalHeading(a) - FinalHeading(b)) < 180

\* the lane the connector with this id leaves
SourceLane(net, connectorId) == LaneById(net, ConnectorById(net, connectorId).fromLane)

\* C26 as stated: at an uncontrolled intersection a rule gives priority to
\* the connector whose incoming lane arrives from the right-hand side of the
\* other's
C26_RightBeforeLeft ==
    Built =>
        \A n \in 1..Len(network.intersections) :
            network.intersections[n].control = "uncontrolled" =>
                \A r \in 1..Len(network.intersections[n].rules) :
                    /\ FromRight(SourceLane(network, network.intersections[n].rules[r].connectorA),
                                 SourceLane(network, network.intersections[n].rules[r].connectorB))
                           => network.intersections[n].rules[r].hasPriority = "A"
                    /\ FromRight(SourceLane(network, network.intersections[n].rules[r].connectorB),
                                 SourceLane(network, network.intersections[n].rules[r].connectorA))
                           => network.intersections[n].rules[r].hasPriority = "B"

\* C28 as stated: no connector of a built snapshot has one lane as its
\* source and its destination
C28_NoConnectorOntoItsOwnLane ==
    Built =>
        \A i \in 1..Len(network.laneConnectors) :
            network.laneConnectors[i].fromLane # network.laneConnectors[i].toLane

----------------------------------------------------------------------------
(* Two builds over one element set                                          *)

\* the manager wraps the snapshot of one build, and another build has
\* returned since
BuiltTwice == manager # NoNetwork /\ network # NoNetwork /\ managerRef # networkRef

\* the lanes, and the intersections with their connectors, as the builder
\* pushes them, before they are keyed by id
LanesPushed == buildAllLanes(RoadWayElements, extractNodesMap(elements))
IntersectionsPushed ==
    buildIntersections(findIntersectionNodes(RoadWayElements, extractNodesMap(elements)),
                       LanesPushed, extractNodesMap(elements), randomSource, 0)
CrossingNodes ==
    SelectSeq(elements, LAMBDA el : el.type = "node" /\ Tag(el.tags, "highway") = "crossing")

\* C23: two builds over the same element set give the same lane, connector,
\* intersection and crosswalk ids, and in a build no two lanes, connectors,
\* intersections or crosswalks share an id: as many keys as entities
C23_IdsDeterministicAndDistinct ==
    /\ BuiltTwice =>
          /\ Ids(manager.lanes) = Ids(network.lanes)
          /\ Ids(manager.laneConnectors) = Ids(network.laneConnectors)
          /\ Ids(manager.intersections) = Ids(network.intersections)
          /\ Ids(manager.crosswalks) = Ids(network.crosswalks)
    /\ Built =>
          /\ Len(network.lanes) = Len(LanesPushed)
          /\ Len(network.laneConnectors) = Len(IntersectionsPushed.laneConnectors)
          /\ Len(network.intersections) = Len(IntersectionsPushed.intersections)
          /\ Len(network.crosswalks) = Len(CrossingNodes)

\* two builds whose snapshots differ, with lanes, connectors, an
\* intersection and a crosswalk in them
C23_Witness ==
    /\ BuiltTwice
    /\ manager # network
    /\ Len(network.lanes) >= 3
    /\ Len(network.laneConnectors) >= 2
    /\ network.intersections # <<>>
    /\ network.crosswalks # <<>>

\* C27 as stated: two builds over the same element set give snapshots equal
\* in every field but generatedAt
C27_BuildsEqualButForTime ==
    BuiltTwice => [network EXCEPT !.generatedAt = manager.generatedAt] = manager

----------------------------------------------------------------------------
(* ClientRoadNetwork                                                        *)

\* this step is a call of loadPragueNetwork that returned at once
LoadCallIgnored ==
    /\ answer' # answer
    /\ answer'.op = "loadPragueNetwork"
    /\ ~answer'.started

\* C29: a fetch is issued only with no load in progress and no manager, and
\* a load is in progress from then on; a loadPragueNetwork call made while
\* loading or with a manager installed issues no fetch and leaves loading,
\* loadError, the manager and the fetch awaited as they are; an installed
\* manager is never replaced
C29_OneLoadAtATime ==
    [][/\ requests' # requests => (~loading /\ manager = NoNetwork /\ loading')
       /\ (loading \/ manager # NoNetwork) => requests' = requests
       /\ LoadCallIgnored =>
              (/\ loading \/ manager # NoNetwork
               /\ UNCHANGED <<loading, loadError, manager, managerRef, network, response,
                              requests, error>>)
       /\ manager # NoNetwork => (manager' = manager /\ managerRef' = managerRef)]_vars

\* loadPragueNetwork was called during the second attempt and returned at
\* once
C29_Witness ==
    /\ loading
    /\ response = Awaited
    /\ requests = MaxRequests
    /\ answer = [op |-> "loadPragueNetwork", started |-> FALSE]

\* this step ends a load attempt
AttemptEnds == response = Awaited /\ response' # Awaited

\* what a query of the client answers without a manager
NotLoaded(call) ==
    CASE call.op = "client.findNearestLane" -> call.result = Null
      [] call.op = "client.isMovementAllowed" -> call.result = FALSE
      [] call.op \in {"client.getAllLanes", "client.getAllIntersections"} -> call.result = <<>>
      [] call.op = "client.getLoadingState" -> ~call.result.isLoaded
      [] OTHER -> TRUE

\* C30: when a load attempt ends loading is false; when it ends in a failure
\* no manager is installed and the message of the error is recorded; without
\* a manager every query answers null, empty or false; a loadPragueNetwork
\* call returns at once only while loading or with a manager, so a call
\* after a failure starts an attempt; and no state has a manager and a
\* recorded error
C30_FailedLoadLeavesNoManager ==
    /\ [](~(manager # NoNetwork /\ loadError # Null))
    /\ [][/\ AttemptEnds => ~loading'
          /\ (AttemptEnds /\ response' \in Failures) =>
                 (/\ manager' = NoNetwork
                  /\ error' # NoError
                  /\ loadError' = [text |-> error'.message])
          /\ (answer' # answer /\ manager = NoNetwork) => NotLoaded(answer')
          /\ (LoadCallIgnored /\ ~loading) => manager # NoNetwork
          /\ (requests' # requests) => (loading' /\ loadError' = Null)]_vars

\* after a failed attempt the client reports the error and no manager, and
\* a second attempt was started and failed as well
C30_Witness ==
    /\ ~loading
    /\ manager = NoNetwork
    /\ loadError # Null
    /\ requests = MaxRequests
    /\ answer = [op |-> "client.getLoadingState",
                 result |-> [isLoading |-> FALSE, isLoaded |-> FALSE, error |-> loadError]]

====
